---- MODULE Spec2Model ----
(***************************************************************************)
(* Trust and integrity subsystem of the ptd library: canonical JSON of     *)
(* envelopes and manifests, Ed25519 signing and verification of envelopes  *)
(* and package manifests, the building of a package archive and the hash   *)
(* check made when it is opened, and the generator of identifiers.         *)
(*                                                                         *)
(* Byte strings are sequences of string tokens, so that "byte-identical"   *)
(* is equality of sequences and the order of JSON members is visible.      *)
(* An Ed25519 signature is the ideal one: the bytes <<key, message>>, that *)
(* verify under exactly that key and that message.                         *)
(***************************************************************************)
EXTENDS Integers, Sequences, FiniteSets, TLC

\* ------------------------------------------------------------------ bounds

\* Sign / SignPackage calls made on the document under study.
MaxSigns == 2

\* Direct writes to the document's fields made by the caller.
MaxEdits == 1

\* CreateArchive calls made on the package built.
MaxArchives == 1

\* The calls of the identifier generator made in all.
MaxCalls == 3

\* An entropy value has room for MaxOffset more before it passes the 80
\* bits.
MaxOffset == 2

\* The longest string handed to ParseID, in characters ("ptd:t:" has
\* three parts, "ptd:::" four).
MaxLen == 6

\* The longest entity type handed to GenerateID, in characters.
MaxTypeLen == 2

\* ------------------------------------------------------------------ errors

ErrInvalidID == "ErrInvalidID"
ErrInvalidType == "ErrInvalidType"
ErrMissingSchema == "ErrMissingSchema"
ErrSignatureFailed == "ErrSignatureFailed"
ErrSignatureInvalid == "ErrSignatureInvalid"
ErrSignatureMissing == "ErrSignatureMissing"
ErrSignatureKeyMissing == "ErrSignatureKeyMissing"
ErrManifestMissing == "ErrManifestMissing"
ErrHashMismatch == "ErrHashMismatch"

\* Every error value the package declares: the kinds a caller can match
\* with errors.Is.
SentinelErrors ==
    { ErrInvalidID, "ErrInvalidType", "ErrMissingSchema", "ErrInvalidSchema",
      "ErrValidation", "ErrInvalidFormat", "ErrMissingField",
      ErrSignatureFailed, ErrSignatureInvalid, ErrSignatureMissing,
      ErrSignatureKeyMissing,
      "ErrInvalidPackage", ErrManifestMissing, "ErrManifestInvalid", ErrHashMismatch,
      "ErrImportFailed", "ErrExportFailed", "ErrUnsupportedVersion",
      "ErrDuplicateEntity" }

\* Errors the code builds in place with fmt.Errorf; they match none of the
\* package's error values.
errNoCanonicalJSON == "envelope does not support canonical JSON"
errCanonicalJSON == "failed to get canonical JSON"
errMarshalEnvelope == "failed to marshal envelope"
errManifestNil == "manifest is nil"
errPublicKeyType == "invalid public key type"
errUnexpectedFile == "unexpected file in package"
errParseManifest == "failed to parse manifest"
errReadFile == "failed to read file"

\* The errors ParseID builds with fmt.Errorf("%w: ...", ErrInvalidID): they
\* wrap ErrInvalidID.
errIDFormat == "ErrInvalidID: expected format ptd:type:identifier"
errIDPrefix == "ErrInvalidID: ID must start with 'ptd:'"

\* The nil error.
nil == "nil"

\* ------------------------------------------------------------ Go values

\* The absent value of an optional field (a nil pointer, map or slice).
None == <<"none", "">>

\* Values an interface{} slot can hold (Meta.Extensions, the entries of a
\* map[string]interface{} payload):
\*   <<"str", s>>     a string
\*   <<"struct", ks>> a Go struct whose fields are declared in the order ks
\*   <<"map", ks>>    a map[string]interface{} with the keys of ks, which a
\*                    range over the map yields in the order ks (the order
\*                    is the runtime's choice at each range: MapAZ and
\*                    MapZA are the same map)
\*   <<"bad", "">>    a value encoding/json cannot encode (NaN, a channel)
StructZA == <<"struct", "za">>
MapAZ == <<"map", "az">>
MapZA == <<"map", "za">>
Unsupported == <<"bad", "">>
DynValues == {<<"str", "v1">>, StructZA, MapAZ, Unsupported}

\* The keys ks stands for, in its order.
RangeOrders == {"az", "za"}
KeysIn(ks) == IF ks = "az" THEN << "a", "z" >> ELSE << "z", "a" >>

\* The keys of the study in the order of their bytes, and the sort of
\* encoding/json's map encoder, which collects the keys of a map as the
\* range yields them and sorts them before it writes.
KeyOrder == << "a", "z" >>
SortKeys(keys) ==
    SelectSeq(KeyOrder, LAMBDA k : \E i \in 1..Len(keys) : keys[i] = k)

\* An encoder that writes a map as the range yields it.
MarshalDyn_RangeOrder(v) ==
    CASE v[1] = "str" -> <<"\"" , v[2], "\"">>
      [] v[1] = "struct" -> <<"{">> \o KeysIn(v[2]) \o <<"}">>
      [] v[1] = "map" -> <<"{">> \o KeysIn(v[2]) \o <<"}">>
      [] OTHER -> <<>>

\* json.Marshal of a value held in an interface{} slot: a struct is written
\* in field declaration order, a map with its keys sorted.
MarshalDyn(v) ==
    CASE v[1] = "str" -> <<"\"" , v[2], "\"">>
      [] v[1] = "struct" -> <<"{">> \o KeysIn(v[2]) \o <<"}">>
      [] v[1] = "map" -> <<"{">> \o SortKeys(KeysIn(v[2])) \o <<"}">>
      [] OTHER -> <<>>

\* Whether json.Marshal accepts the value.
Marshalable(v) == v[1] # "bad"

\* json.Unmarshal into an interface{} slot of the JSON that v was marshalled
\* to: a JSON object always comes back as a map[string]interface{}.
UnmarshalDyn(v) ==
    CASE v = None -> None
      [] v[1] = "struct" -> MapAZ
      [] OTHER -> v

\* A time.Time: in range, or with a year outside [0,9999], which
\* Time.MarshalJSON rejects.
TimeBad == "T_out_of_range"
Times == {"T0", "T1", TimeBad}

\* A nil pointer is the empty sequence, a pointer to v the sequence <<v>>.
NilPtr == <<>>
Ptr(v) == <<v>>

\* A Signature's SignedAt is a reading of the clock (0 and up) or a time
\* before the year 0, which Time.MarshalJSON rejects like one after 9999.
BeforeYearZero == -1
SignatureMarshalable(sig) == sig = NilPtr \/ sig[1].SignedAt # BeforeYearZero

\* ------------------------------------------------------------- Ed25519

\* The signers of the study: private key, key id, identity. The public key
\* of private key k is PublicOf[k].
PrivateKeys == {"kA", "kB"}
PublicOf == [k \in PrivateKeys |-> IF k = "kA" THEN "pA" ELSE "pB"]
PublicKeys == {PublicOf[k] : k \in PrivateKeys}
Signers ==
    { [privateKey |-> "kA", publicKeyID |-> "key-1", signedBy |-> "system-1"],
      [privateKey |-> "kB", publicKeyID |-> "key-2", signedBy |-> "system-2"] }

\* ed25519.Sign(privateKey, message): the 64 signature bytes. bits = 0 marks
\* the bytes as produced by Sign; any change of a bit gives bits = 1.
Ed25519Sign(privateKey, message) ==
    [key |-> PublicOf[privateKey], msg |-> message, bits |-> 0]

\* A verification that does not look at the message.
Ed25519Verify_IgnoresMessage(publicKey, message, sig) ==
    sig.bits = 0 /\ sig.key = publicKey

\* A verification that does not look at the key.
Ed25519Verify_IgnoresKey(publicKey, message, sig) ==
    sig.bits = 0 /\ sig.msg = message

\* ed25519.Verify(publicKey, message, sig).
Ed25519Verify(publicKey, message, sig) ==
    sig.bits = 0 /\ sig.key = publicKey /\ sig.msg = message

\* Signature bytes that are no signature of anything.
NoBytes == [key |-> "", msg |-> <<>>, bits |-> 1]

\* ------------------------------------------------------------- base64

\* A string, as far as base64.StdEncoding is concerned:
\*   form "std"  the encoding EncodeToString gives for data
\*   form "alt"  another string DecodeString maps to data: StdEncoding is not
\*               strict, it skips \r and \n and ignores non-zero trailing
\*               padding bits
\*   form "bad"  a string DecodeString rejects
Base64Encode(data) == [form |-> "std", data |-> data]

\* A decoder that accepts every string.
Base64Decode_AcceptsAll(str) == [err |-> nil, data |-> str.data]

Base64Decode(str) ==
    IF str.form = "bad"
    THEN [err |-> "CorruptInputError", data |-> NoBytes]
    ELSE [err |-> nil, data |-> str.data]

\* ---------------------------------------------------------- key pairs

\* ed25519.PublicKeySize and ed25519.PrivateKeySize, in bytes.
PublicKeySize == 32
PrivateKeySize == 64

\* Key material: len bytes, which are those of the key id when the length
\* is that of a key. The lengths of the study are those of the two kinds
\* of key, their neighbours and none.
KeyBytes(len, id) == [len |-> len, id |-> id]
KeyLens == {0, 31, 32, 33, 63, 64, 65}
NilKey == KeyBytes(0, "nil")

\* GenerateKeyPair(), with the key ed25519.GenerateKey draws: the two keys
\* in base64.
GenerateKeyPair(k) ==
    [PublicKey |-> Base64Encode(KeyBytes(PublicKeySize, PublicOf[k])),
     PrivateKey |-> Base64Encode(KeyBytes(PrivateKeySize, k))]

errDecodePublicKey == "failed to decode public key"
errPublicKeySize == "invalid public key size"
errDecodePrivateKey == "failed to decode private key"
errPrivateKeySize == "invalid private key size"

\* A ParsePublicKey that takes what the string decodes to, whatever its
\* length.
ParsePublicKey_AnyLength(publicKeyB64) ==
    LET r == Base64Decode(publicKeyB64)
    IN  IF r.err # nil THEN [key |-> NilKey, err |-> errDecodePublicKey]
        ELSE [key |-> r.data, err |-> nil]

\* ParsePublicKey(publicKeyB64)
ParsePublicKey(publicKeyB64) ==
    LET r == Base64Decode(publicKeyB64)
    IN  IF r.err # nil THEN [key |-> NilKey, err |-> errDecodePublicKey]
        ELSE IF r.data.len # PublicKeySize
        THEN [key |-> NilKey, err |-> errPublicKeySize]
        ELSE [key |-> r.data, err |-> nil]

\* ParsePrivateKey(privateKeyB64)
ParsePrivateKey(privateKeyB64) ==
    LET r == Base64Decode(privateKeyB64)
    IN  IF r.err # nil THEN [key |-> NilKey, err |-> errDecodePrivateKey]
        ELSE IF r.data.len # PrivateKeySize
        THEN [key |-> NilKey, err |-> errPrivateKeySize]
        ELSE [key |-> r.data, err |-> nil]

\* ------------------------------------------------------------ Envelope

\* The instantiations of Envelope[T] of the study. attachSignature and
\* extractSignature name the first five; *Envelope[Player] stands for every
\* other instantiation, all handled by their default branch.
SwitchKinds == {"Map", "Tournament", "Event", "Match", "Entry"}
FallbackKinds == {"Player"}
Kinds == SwitchKinds \cup FallbackKinds

\* The instantiations the study starts from. The cases of the two type
\* switches for Tournament, Event, Match and Entry have the same body, so
\* Tournament stands for the four.
StudyKinds == {"Map", "Tournament", "Player"}

\* json.Marshal of a Signature struct.
MarshalSignature(sig) ==
    << "{", "algorithm", sig.Algorithm, "public_key_id", sig.PublicKeyID,
       "signature", sig.Signature.form, sig.Signature.data.key,
       ToString(sig.Signature.data.bits) >>
    \o sig.Signature.data.msg
    \o << "signed_at", ToString(sig.SignedAt), "signed_by", sig.SignedBy, "}" >>

\* json.Marshal of the payload: a struct in declaration order, a map with
\* sorted keys (Name before X either way); X is omitted when absent.
MarshalSpec(spec) ==
    << "{", "name", spec.Name >>
    \o (IF spec.X = None THEN <<>> ELSE <<"x">> \o MarshalDyn(spec.X))
    \o << "}" >>

\* A []string: nil, or a slice of elements (which may be empty).
NilSlice == <<>>
Slice(elems) == <<elems>>

\* json.Marshal of Meta: the five plain fields, then tags, extensions,
\* signature and provenance, each left out when empty (omitempty: a nil
\* slice and an empty one are both left out).
MarshalMeta(meta) ==
    << "{", "schema", meta.Schema, "version", ToString(meta.Version),
       "created_at", meta.CreatedAt, "updated_at", meta.UpdatedAt,
       "source", meta.Source >>
    \o (IF meta.Tags = NilSlice \/ meta.Tags[1] = <<>> THEN <<>>
        ELSE <<"tags", "[">> \o meta.Tags[1] \o <<"]">>)
    \o (IF meta.Extensions = None THEN <<>>
        ELSE <<"extensions", "{", "vendor">> \o MarshalDyn(meta.Extensions) \o <<"}">>)
    \o (IF meta.Signature = NilPtr THEN <<>>
        ELSE <<"signature">> \o MarshalSignature(meta.Signature[1]))
    \o (IF meta.Provenance = "" THEN <<>> ELSE <<"provenance", meta.Provenance>>)
    \o << "}" >>

\* Whether json.Marshal accepts the envelope.
EnvelopeMarshalable(e) ==
    /\ e.Spec.X = None \/ Marshalable(e.Spec.X)
    /\ e.Meta.Extensions = None \/ Marshalable(e.Meta.Extensions)
    /\ e.Meta.CreatedAt # TimeBad
    /\ e.Meta.UpdatedAt # TimeBad
    /\ SignatureMarshalable(e.Meta.Signature)

\* json.Marshal(envelope).
MarshalEnvelope(e) ==
    IF EnvelopeMarshalable(e)
    THEN [err |-> nil,
          bytes |-> << "{", "id", e.ID, "type", e.Type, "spec" >>
                    \o MarshalSpec(e.Spec) \o <<"meta">> \o MarshalMeta(e.Meta)
                    \o << "}" >>]
    ELSE [err |-> "json: unsupported value", bytes |-> <<>>]

\* A canonical form that keeps the signature.
EnvelopeCanonicalJSON_KeepsSignature(e) == MarshalEnvelope(e)

\* (e *Envelope[T]) CanonicalJSON.
EnvelopeCanonicalJSON(e) ==
    LET temp == IF e.Meta.Signature # NilPtr
                THEN [e EXCEPT !.Meta.Signature = NilPtr]
                ELSE e
    IN  MarshalEnvelope(temp)

\* A Validate that looks at the type first.
Validate_TypeFirst(e) ==
    IF e.Type = "" THEN ErrInvalidType
    ELSE IF e.ID = "" THEN ErrInvalidID
    ELSE IF e.Meta.Schema = "" THEN ErrMissingSchema
    ELSE nil

\* (e *Envelope[T]) Validate.
Validate(e) ==
    IF e.ID = "" THEN ErrInvalidID
    ELSE IF e.Type = "" THEN ErrInvalidType
    ELSE IF e.Meta.Schema = "" THEN ErrMissingSchema
    ELSE nil

\* ------------------------------------------------------------ Manifest

\* Entity types and archive paths of the study, each in sorted order.
EntityTypes == <<"event", "tournament">>
Paths == <<"event/events.ndjson", "tournament/tournaments.ndjson">>

\* The paths a working directory may hold, in the lexical order of
\* filepath.Walk: the entity files, the manifest CreateArchive writes, and
\* an archive written into the directory.
InsideArchive == "out.ptd"
WalkOrder == << "event/events.ndjson", "manifest.json", "out.ptd",
               "tournament/tournaments.ndjson" >>

\* json.Marshal of the entity-count table: a map, written with sorted keys.
RECURSIVE MarshalEntities(_, _)
MarshalEntities(entities, i) ==
    IF i > Len(EntityTypes) THEN <<>>
    ELSE (IF EntityTypes[i] \in DOMAIN entities
          THEN << EntityTypes[i], "{", "type", EntityTypes[i], "count",
                  ToString(entities[EntityTypes[i]]), "}" >>
          ELSE <<>>)
         \o MarshalEntities(entities, i + 1)

\* json.Marshal of the file table: nil is written as null, a map with its
\* keys sorted.
RECURSIVE MarshalFiles(_, _)
MarshalFiles(files, i) ==
    IF i > Len(WalkOrder) THEN <<>>
    ELSE (IF WalkOrder[i] \in DOMAIN files
          THEN << WalkOrder[i], "{", "path", files[WalkOrder[i]].Path, "size",
                  ToString(files[WalkOrder[i]].Size), "hash",
                  files[WalkOrder[i]].Hash, "}" >>
          ELSE <<>>)
         \o MarshalFiles(files, i + 1)

\* A description that is not valid UTF-8 (a Latin-1 byte), the JSON string
\* json.Marshal writes for it (the byte replaced by the six characters of
\* the escape \ufffd) and the string json.Unmarshal reads back (the
\* character U+FFFD, which json.Marshal writes as it is).
InvalidUTF8 == "Caf(0xE9)"
EscapedReplacement == "Caf(escape ufffd)"
ReplacementChar == "Caf(U+FFFD)"

\* The JSON string json.Marshal writes for a Go string, and the Go string
\* json.Unmarshal reads from a JSON string.
EncodeJSONString(str) == IF str = InvalidUTF8 THEN EscapedReplacement ELSE str
DecodeJSONString(json) == IF json = EscapedReplacement THEN ReplacementChar ELSE json

\* time.Now() of NewPackage: the wall clock time T0 and a monotonic clock
\* reading. Time.MarshalJSON writes the wall clock time only.
TimeNow == "T0+m"
WallClock(t) == IF t = TimeNow THEN "T0" ELSE t

\* json.Marshal(manifest); filesNil says the Files map is nil.
MarshalManifest(m, filesNil) ==
    IF m.Created = TimeBad \/ ~SignatureMarshalable(m.Signature)
    THEN [err |-> "json: unsupported value", bytes |-> <<>>]
    ELSE [err |-> nil,
          bytes |-> << "{", "version", m.Version, "created", WallClock(m.Created),
                       "creator", m.Creator, "description",
                       EncodeJSONString(m.Description), "files" >>
                    \o (IF filesNil THEN <<"null">>
                        ELSE <<"{">> \o MarshalFiles(m.Files, 1) \o <<"}">>)
                    \o << "entities", "{" >> \o MarshalEntities(m.Entities, 1) \o << "}" >>
                    \o (IF m.Signature = NilPtr THEN <<>>
                        ELSE <<"signature">> \o MarshalSignature(m.Signature[1]))
                    \o << "}" >>]

\* A canonical form that leaves out the entity counts.
ManifestCanonicalJSON_DropsEntities(m) ==
    MarshalManifest([m EXCEPT !.Signature = NilPtr, !.Entities = [x \in {} |-> 0]], TRUE)

\* A canonical form that keeps the file table.
ManifestCanonicalJSON_KeepsFiles(m) ==
    MarshalManifest([m EXCEPT !.Signature = NilPtr], FALSE)

\* (m *Manifest) CanonicalJSON: a copy with no signature and no file table.
ManifestCanonicalJSON(m) ==
    LET temp == [m EXCEPT !.Signature = NilPtr]
    IN  MarshalManifest(temp, TRUE)

\* ------------------------------------------------- values passed around

\* What Sign, Verify and VerifyWithPublicKeyID receive as envelope
\* interface{}: go is the dynamic type, "*Envelope" (a pointer to the
\* envelope env), "Envelope" (env passed by value: CanonicalJSON has a
\* pointer receiver, so the value does not provide it) or "*Manifest" (a
\* pointer to the manifest man).
GoTypes == {"*Envelope", "Envelope", "*Manifest"}
Arg(go, env, man) == [go |-> go, env |-> env, man |-> man]

\* The type assertion envelope.(canonicalJSONer).
HasCanonicalJSON(arg) == arg.go \in {"*Envelope", "*Manifest"}

\* canonicalizer.CanonicalJSON().
CanonicalJSON(arg) ==
    IF arg.go = "*Manifest"
    THEN ManifestCanonicalJSON(arg.man)
    ELSE EnvelopeCanonicalJSON(arg.env)

\* json.Marshal(envelope) of the default branches.
MarshalArg(arg) ==
    IF arg.go = "*Manifest"
    THEN MarshalManifest(arg.man, FALSE)
    ELSE MarshalEnvelope(arg.env)

\* Whether the type switch of attachSignature / extractSignature has a case
\* for the value.
InTypeSwitch(arg) == arg.go = "*Envelope" /\ arg.env.Kind \in SwitchKinds

\* --------------------------------------------------- Signer and Verify

\* What attachSignature's default branch leaves in the envelope: the JSON
\* of the value with meta.signature set is unmarshalled back into it.
\* Statically typed fields come back as they were; the values of the
\* Extensions map are decoded anew into interface{} slots.
UnmarshalBack(e, sig) ==
    [e EXCEPT !.Meta.Extensions = UnmarshalDyn(@), !.Meta.Signature = Ptr(sig)]

\* attachSignature(envelope, sig): the error, and the documents afterwards.
attachSignature(arg, sig) ==
    IF InTypeSwitch(arg)
    THEN [err |-> nil, env |-> [arg.env EXCEPT !.Meta.Signature = Ptr(sig)],
          man |-> arg.man]
    ELSE IF MarshalArg(arg).err # nil
    THEN [err |-> errMarshalEnvelope, env |-> arg.env, man |-> arg.man]
    ELSE IF arg.go = "*Manifest"
    THEN \* the JSON of a manifest has no "meta" member: nothing is set
         [err |-> nil, env |-> arg.env, man |-> arg.man]
    ELSE IF arg.go = "Envelope"
    THEN \* json.Unmarshal into a non-pointer
         [err |-> "failed to unmarshal back", env |-> arg.env, man |-> arg.man]
    ELSE [err |-> nil, env |-> UnmarshalBack(arg.env, sig), man |-> arg.man]

\* (s *Signer) Sign(envelope), called at time now.
Sign(s, arg, now) ==
    LET canonical == CanonicalJSON(arg)
        signature == Ed25519Sign(s.privateKey, canonical.bytes)
        signatureB64 == Base64Encode(signature)
        sig == [Algorithm |-> "ed25519", PublicKeyID |-> s.publicKeyID,
                Signature |-> signatureB64, SignedAt |-> now,
                SignedBy |-> s.signedBy]
    IN  IF ~HasCanonicalJSON(arg)
        THEN [err |-> errNoCanonicalJSON, env |-> arg.env, man |-> arg.man]
        ELSE IF canonical.err # nil
        THEN [err |-> errCanonicalJSON, env |-> arg.env, man |-> arg.man]
        ELSE attachSignature(arg, sig)

\* extractSignature(envelope): the error and the *Signature.
extractSignature(arg) ==
    IF InTypeSwitch(arg)
    THEN [err |-> nil, sig |-> arg.env.Meta.Signature]
    ELSE IF MarshalArg(arg).err # nil
    THEN [err |-> errMarshalEnvelope, sig |-> NilPtr]
    ELSE IF arg.go = "*Manifest"
    THEN \* no "meta" member
         [err |-> nil, sig |-> NilPtr]
    ELSE [err |-> nil, sig |-> arg.env.Meta.Signature]

\* Verify(envelope, publicKey): the error returned.
Verify(arg, publicKey) ==
    LET extracted == extractSignature(arg)
        canonical == CanonicalJSON(arg)
        decoded == Base64Decode(extracted.sig[1].Signature)
    IN  IF ~HasCanonicalJSON(arg) THEN ErrSignatureFailed
        ELSE IF extracted.err # nil THEN extracted.err
        ELSE IF extracted.sig = NilPtr THEN ErrSignatureMissing
        ELSE IF canonical.err # nil THEN errCanonicalJSON
        ELSE IF decoded.err # nil THEN ErrSignatureInvalid
        ELSE IF ~Ed25519Verify(publicKey, canonical.bytes, decoded.data)
        THEN ErrSignatureFailed
        ELSE nil

\* The key ids a lookup function may be asked for, and the lookup functions
\* of the study: a key id maps to a public key, or to "" when the lookup
\* returns an error.
KeyIDs == {"key-1", "key-2", "unknown-key"}
LookupFuncs ==
    { [k \in KeyIDs |-> IF k = "key-1" THEN "pA" ELSE IF k = "key-2" THEN "pB" ELSE ""],
      [k \in KeyIDs |-> IF k = "key-1" THEN "pB" ELSE IF k = "key-2" THEN "" ELSE "pA"],
      [k \in KeyIDs |-> ""] }

\* VerifyWithPublicKeyID(envelope, lookupFunc): the error returned.
VerifyWithPublicKeyID(arg, lookupFunc) ==
    LET extracted == extractSignature(arg)
        publicKey == lookupFunc[extracted.sig[1].PublicKeyID]
    IN  IF extracted.err # nil THEN extracted.err
        ELSE IF extracted.sig = NilPtr THEN ErrSignatureMissing
        ELSE IF publicKey = "" THEN ErrSignatureKeyMissing
        ELSE Verify(arg, publicKey)

\* ------------------------------------------------------------- Package

\* (p *Package) SignPackage(signer), called at time now: the error and the
\* package afterwards. A package is its Manifest pointer.
SignPackage(p, signer, now) ==
    IF p.Manifest = NilPtr THEN [err |-> errManifestNil, pkg |-> p]
    ELSE IF ManifestCanonicalJSON(p.Manifest[1]).err # nil
    THEN [err |-> errCanonicalJSON, pkg |-> p]
    ELSE LET canonical == ManifestCanonicalJSON(p.Manifest[1]).bytes
             signature == Ed25519Sign(signer.privateKey, canonical)
             signatureB64 == Base64Encode(signature)
             sig == [Algorithm |-> "ed25519", PublicKeyID |-> signer.publicKeyID,
                     Signature |-> signatureB64, SignedAt |-> now,
                     SignedBy |-> signer.signedBy]
         IN  [err |-> nil,
              pkg |-> [p EXCEPT !.Manifest = Ptr([@[1] EXCEPT !.Signature = Ptr(sig)])]]

\* The values VerifyPackageSignature may get as publicKey interface{}: an
\* ed25519.PublicKey, or a value of another type.
NotAKey == "not-an-ed25519.PublicKey"

\* (p *Package) VerifyPackageSignature(publicKey): the error returned.
VerifyPackageSignature(p, publicKey) ==
    IF p.Manifest = NilPtr THEN errManifestNil
    ELSE IF p.Manifest[1].Signature = NilPtr THEN ErrSignatureMissing
    ELSE IF ManifestCanonicalJSON(p.Manifest[1]).err # nil THEN errCanonicalJSON
    ELSE LET decoded == Base64Decode(p.Manifest[1].Signature[1].Signature)
         IN  IF decoded.err # nil THEN ErrSignatureInvalid
             ELSE IF publicKey = NotAKey THEN errPublicKeyType
             ELSE IF ~Ed25519Verify(publicKey, ManifestCanonicalJSON(p.Manifest[1]).bytes,
                                    decoded.data)
             THEN ErrSignatureFailed
             ELSE nil

\* --------------------------------- what the read-only calls leave behind

\* A CanonicalJSON that clears the signature through the pointer.
EnvelopeAfterCanonicalJSON_InPlace(e) == [e EXCEPT !.Meta.Signature = NilPtr]

\* The envelope after e.CanonicalJSON(): temp := *e copies the struct and
\* metaCopy := temp.Meta its metadata, and the signature is cleared in the
\* copies; nothing is written through e.
EnvelopeAfterCanonicalJSON(e) == e

\* The manifest after m.CanonicalJSON(): temp := *m copies the struct, and
\* Signature and Files are set to nil in the copy (the maps themselves,
\* which the copy shares with m, are not written).
ManifestAfterCanonicalJSON(m) == m

\* The argument after canonicalizer.CanonicalJSON().
AfterCanonicalJSON(arg) ==
    IF arg.go = "*Manifest"
    THEN [arg EXCEPT !.man = ManifestAfterCanonicalJSON(@)]
    ELSE [arg EXCEPT !.env = EnvelopeAfterCanonicalJSON(@)]

\* The argument after Verify(envelope, publicKey): extractSignature reads
\* the signature (its default branch marshals the value and decodes the
\* JSON into a map of its own), and CanonicalJSON is called when a
\* signature was found.
AfterVerify(arg) ==
    LET extracted == extractSignature(arg)
    IN  IF HasCanonicalJSON(arg) /\ extracted.err = nil /\ extracted.sig # NilPtr
        THEN AfterCanonicalJSON(arg)
        ELSE arg

\* The argument after VerifyWithPublicKeyID(envelope, lookupFunc), which
\* hands it to Verify when the lookup gave a key.
AfterVerifyWithPublicKeyID(arg, lookupFunc) ==
    LET extracted == extractSignature(arg)
    IN  IF extracted.err = nil /\ extracted.sig # NilPtr
           /\ lookupFunc[extracted.sig[1].PublicKeyID] # ""
        THEN AfterVerify(arg)
        ELSE arg

\* The package after p.VerifyPackageSignature(publicKey), which calls
\* p.Manifest.CanonicalJSON() when the manifest has a signature.
AfterVerifyPackageSignature(p) ==
    IF p.Manifest # NilPtr /\ p.Manifest[1].Signature # NilPtr
    THEN [Manifest |-> Ptr(ManifestAfterCanonicalJSON(p.Manifest[1]))]
    ELSE p

\* ----------------------------------------------------------- OpenPackage

\* File contents of the study and their SHA-256 digests in hex (distinct
\* contents have distinct digests); a FileEntry may also record a string
\* that is the digest of nothing.
Contents == {"c1", "c2"}

\* The other contents a working directory may hold: an empty entity file,
\* a manifest.json, a finished archive, and an archive as it is read while
\* it is being written.
BuildContents == {"c0", "manifest", "zip", "zip-partial"}
Sha256Hex ==
    [c \in Contents \cup BuildContents |->
        CASE c = "c0" -> "h0"
          [] c = "c1" -> "h1"
          [] c = "c2" -> "h2"
          [] c = "manifest" -> "hm"
          [] c = "zip" -> "hz"
          [] c = "zip-partial" -> "hzp"]
Hashes == {"h1", "h2", "wronghash123"}

\* The error OpenPackage builds with fmt.Errorf("%w for file %s",
\* ErrHashMismatch, name), and errors.Is for the errors of the model.
WrappedHashMismatch == "ErrHashMismatch for file"
ErrorsIs(err, target) ==
    \/ err = target
    \/ err = WrappedHashMismatch /\ target = ErrHashMismatch
    \/ err \in {errIDFormat, errIDPrefix} /\ target = ErrInvalidID

\* An archive is what zip.OpenReader gives: IsZip (whether it opens at all)
\* and File, the entries in archive order. An entry has a Name, the Data it
\* decompresses to, Readable (whether Open and the reads succeed: a stale
\* CRC-32 or a broken deflate stream make them fail) and, for a
\* manifest.json, Man: a pointer to the manifest its data parses to, nil
\* when json.Unmarshal rejects the data.
ManifestName == "manifest.json"

\* A search that takes the first entry, whatever its name.
FindManifest_AnyName(file, i) == IF i > Len(file) THEN 0 ELSE i

\* The first entry named manifest.json at or after index i, 0 if none.
RECURSIVE FindManifest(_, _)
FindManifest(file, i) ==
    IF i > Len(file) THEN 0
    ELSE IF file[i].Name = ManifestName THEN i
    ELSE FindManifest(file, i + 1)

\* A validation loop that compares no hash.
RECURSIVE ValidateFileHashes_NoCompare(_, _, _)
ValidateFileHashes_NoCompare(file, manifest, i) ==
    IF i > Len(file) THEN nil
    ELSE IF file[i].Name = ManifestName
    THEN ValidateFileHashes_NoCompare(file, manifest, i + 1)
    ELSE IF file[i].Name \notin DOMAIN manifest.Files THEN errUnexpectedFile
    ELSE IF ~file[i].Readable THEN errReadFile
    ELSE ValidateFileHashes_NoCompare(file, manifest, i + 1)

\* The hash validation loop of OpenPackage from entry i on: the first error,
\* nil when every entry passes.
RECURSIVE ValidateFileHashes(_, _, _)
ValidateFileHashes(file, manifest, i) ==
    IF i > Len(file) THEN nil
    ELSE IF file[i].Name = ManifestName THEN ValidateFileHashes(file, manifest, i + 1)
    ELSE IF file[i].Name \notin DOMAIN manifest.Files THEN errUnexpectedFile
    ELSE IF ~file[i].Readable THEN errReadFile
    ELSE IF Sha256Hex[file[i].Data] # manifest.Files[file[i].Name].Hash
    THEN WrappedHashMismatch
    ELSE ValidateFileHashes(file, manifest, i + 1)

\* An OpenPackage that also wants a file for every entry of the file table.
OpenPackage_WantsEveryFile(archive) ==
    IF ~archive.IsZip THEN [err |-> "failed to open archive", pkg |-> NilPtr]
    ELSE LET m == FindManifest(archive.File, 1)
         IN  IF m = 0 THEN [err |-> ErrManifestMissing, pkg |-> NilPtr]
             ELSE IF ~archive.File[m].Readable
             THEN [err |-> "failed to read manifest", pkg |-> NilPtr]
             ELSE IF archive.File[m].Man = NilPtr
             THEN [err |-> errParseManifest, pkg |-> NilPtr]
             ELSE LET manifest == archive.File[m].Man[1]
                      err == ValidateFileHashes(archive.File, manifest, 1)
                  IN  IF err # nil THEN [err |-> err, pkg |-> NilPtr]
                      ELSE IF \E q \in DOMAIN manifest.Files :
                                \A i \in 1..Len(archive.File) : archive.File[i].Name # q
                      THEN [err |-> "missing file", pkg |-> NilPtr]
                      ELSE [err |-> nil, pkg |-> Ptr([Manifest |-> Ptr(manifest)])]

\* OpenPackage(archivePath): the error and the *Package (nil on error).
OpenPackage(archive) ==
    IF ~archive.IsZip THEN [err |-> "failed to open archive", pkg |-> NilPtr]
    ELSE LET m == FindManifest(archive.File, 1)
         IN  IF m = 0 THEN [err |-> ErrManifestMissing, pkg |-> NilPtr]
             ELSE IF ~archive.File[m].Readable
             THEN [err |-> "failed to read manifest", pkg |-> NilPtr]
             ELSE IF archive.File[m].Man = NilPtr
             THEN [err |-> errParseManifest, pkg |-> NilPtr]
             ELSE LET manifest == archive.File[m].Man[1]
                      err == ValidateFileHashes(archive.File, manifest, 1)
                  IN  IF err # nil THEN [err |-> err, pkg |-> NilPtr]
                      ELSE [err |-> nil, pkg |-> Ptr([Manifest |-> Ptr(manifest)])]

\* ------------------------------------------- AddEntities, CreateArchive

\* A working directory is a function from the relative paths of its files
\* to their contents.
EmptyDir == [x \in {} |-> 0]
WriteFile(d, path, content) ==
    [q \in DOMAIN d \cup {path} |-> IF q = path THEN content ELSE d[q]]

\* The entities of the study: two that json.Marshal accepts, and a channel,
\* which it rejects.
Chan == "chan"
EntityLists == { <<>>, <<"e1">>, <<"e1", "e2">>, <<"e1", Chan>> }
EntityMarshalable(entity) == entity # Chan

\* tempDir/<entityType>/<entityType>s.ndjson, relative to tempDir.
EntityFile(entityType) ==
    Paths[CHOOSE i \in 1..Len(EntityTypes) : EntityTypes[i] = entityType]

\* The content of an entity file of n lines (the lines of the study are
\* those of "e1" and "e2", in this order).
LinesContent(n) == IF n = 0 THEN "c0" ELSE IF n = 1 THEN "c1" ELSE "c2"

\* The size in bytes of a content.
SizeOf(content) ==
    CASE content = "c0" -> 0
      [] content = "c1" -> 3
      [] content = "c2" -> 6
      [] OTHER -> 9

\* (p *Package) AddEntities(entityType, entities) on working directory d:
\* the error, the package and the directory afterwards. os.Create truncates
\* the entity file, the loop writes a line per entity and returns at the
\* first entity json.Marshal rejects, leaving the lines written so far; the
\* entity count is set only when the loop completes.
AddEntities(p, d, entityType, entities) ==
    LET rejected == { i \in 1..Len(entities) : ~EntityMarshalable(entities[i]) }
        written == IF rejected = {} THEN Len(entities)
                   ELSE (CHOOSE i \in rejected : \A j \in rejected : i <= j) - 1
        d1 == WriteFile(d, EntityFile(entityType), LinesContent(written))
        counts == p.Manifest[1].Entities
        counts1 == [t \in DOMAIN counts \cup {entityType} |->
                       IF t = entityType THEN Len(entities) ELSE counts[t]]
    IN  IF rejected # {}
        THEN [err |-> "failed to marshal entity", pkg |-> p, dir |-> d1]
        ELSE [err |-> nil,
              pkg |-> [Manifest |-> Ptr([p.Manifest[1] EXCEPT !.Entities = counts1])],
              dir |-> d1]

\* The manifest json.Unmarshal reads from what json.MarshalIndent wrote for
\* manifest m: the creation time has lost its monotonic clock reading, the
\* description is the decoded JSON string.
ManifestFromJSON(m) ==
    [m EXCEPT !.Created = WallClock(@),
              !.Description = DecodeJSONString(EncodeJSONString(@))]

\* Where CreateArchive may be asked to write: a path outside the working
\* directory, a path inside it, a path os.Create cannot create.
OutputPaths == {"outside", "inside", "unwritable"}

\* The entries zip.Writer gets from the second walk of directory d, from
\* path i of the walk order on; manifest is what the manifest.json parses
\* to. An output file inside the directory is read while it is being
\* written (the model has the walk end, with part of the file read).
RECURSIVE ZipEntries(_, _, _, _)
ZipEntries(d, manifest, outputPath, i) ==
    IF i > Len(WalkOrder) THEN <<>>
    ELSE (IF WalkOrder[i] \in DOMAIN d
          THEN << [Name |-> WalkOrder[i],
                   Data |-> IF WalkOrder[i] = InsideArchive /\ outputPath = "inside"
                            THEN "zip-partial"
                            ELSE d[WalkOrder[i]],
                   Readable |-> TRUE,
                   Man |-> IF WalkOrder[i] = ManifestName THEN Ptr(manifest)
                           ELSE NilPtr] >>
          ELSE <<>>)
         \o ZipEntries(d, manifest, outputPath, i + 1)

\* A CreateArchive that leaves the file table as it is.
CreateArchive_NoFileTable(p, d, file, outputPath) ==
    LET m1 == p.Manifest[1]
        d1 == WriteFile(d, ManifestName, "manifest")
        d2 == IF outputPath = "inside" THEN WriteFile(d1, InsideArchive, "zip") ELSE d1
    IN  IF MarshalManifest(m1, FALSE).err # nil
        THEN [err |-> "failed to marshal manifest", pkg |-> p, dir |-> d,
              archive |-> file]
        ELSE IF outputPath = "unwritable"
        THEN [err |-> "failed to create archive", pkg |-> p, dir |-> d1,
              archive |-> file]
        ELSE [err |-> nil, pkg |-> p, dir |-> d2,
              archive |-> [IsZip |-> TRUE,
                           File |-> ZipEntries(d2, ManifestFromJSON(m1), outputPath, 1)]]

\* (p *Package) CreateArchive(outputPath) on working directory d, with
\* file the archive at outputPath before the call: the error, the package,
\* the directory and the archive at outputPath afterwards. The first walk
\* puts a FileEntry for every file of the directory into the file table;
\* then the manifest is marshalled and written to manifest.json, the
\* output file is created, and the second walk zips every file of the
\* directory.
CreateArchive(p, d, file, outputPath) ==
    LET files == p.Manifest[1].Files
        files1 == [q \in DOMAIN files \cup DOMAIN d |->
                     IF q \in DOMAIN d
                     THEN [Path |-> q, Size |-> SizeOf(d[q]), Hash |-> Sha256Hex[d[q]]]
                     ELSE files[q]]
        m1 == [p.Manifest[1] EXCEPT !.Files = files1]
        p1 == [Manifest |-> Ptr(m1)]
        d1 == WriteFile(d, ManifestName, "manifest")
        d2 == IF outputPath = "inside" THEN WriteFile(d1, InsideArchive, "zip") ELSE d1
    IN  IF MarshalManifest(m1, FALSE).err # nil
        THEN [err |-> "failed to marshal manifest", pkg |-> p1, dir |-> d,
              archive |-> file]
        ELSE IF outputPath = "unwritable"
        THEN [err |-> "failed to create archive", pkg |-> p1, dir |-> d1,
              archive |-> file]
        ELSE [err |-> nil, pkg |-> p1, dir |-> d2,
              archive |-> [IsZip |-> TRUE,
                           File |-> ZipEntries(d2, ManifestFromJSON(m1), outputPath, 1)]]

\* ---------------------------------------------------------- IDGenerator

\* An entropy value of ulid.MonotonicEntropy. The 80 bits a read of
\* crypto/rand gives are a value no other read gives and not zero: nonce
\* numbers the read (0 for the zero value the generator starts with), off
\* is what the increments have added since, and wraps counts the times the
\* sum has passed the 80 bits.
ZeroEntropy == [nonce |-> 0, wraps |-> 0, off |-> 0]
IsZero(entropy) == entropy = ZeroEntropy

\* NewIDGenerator(): ulid.Monotonic(rand.Reader, 0), with ms and entropy
\* zero; reads counts the reads of rand.Reader for fresh entropy.
NewIDGenerator == [ms |-> 0, entropy |-> ZeroEntropy, reads |-> 0]

ErrMonotonicOverflow == "ulid: monotonic entropy overflow"

\* A MonotonicRead that hands out the entropy it has once more when the
\* timestamp is that of the previous call.
MonotonicRead_NoIncrement(m, ms, inc) ==
    IF ~IsZero(m.entropy) /\ m.ms = ms
    THEN [err |-> nil, gen |-> m, entropy |-> m.entropy]
    ELSE LET fresh == [nonce |-> m.reads + 1, wraps |-> 0, off |-> 0]
         IN  [err |-> nil,
              gen |-> [ms |-> ms, entropy |-> fresh, reads |-> m.reads + 1],
              entropy |-> fresh]

\* The random increments of the study (the library draws one in
\* 1..2^32-1).
Increments == {1, 2}

\* (m *MonotonicEntropy) MonotonicRead(ms, entropy), with inc the random
\* increment it draws: when the generator has entropy and ms is the
\* timestamp of the previous call the entropy is incremented, and the call
\* fails if the sum passes the 80 bits; otherwise fresh entropy is read and
\* the timestamp recorded.
MonotonicRead(m, ms, inc) ==
    IF ~IsZero(m.entropy) /\ m.ms = ms
    THEN LET sum == m.entropy.off + inc
             overflow == sum > MaxOffset
             incremented ==
                 IF overflow
                 THEN [m.entropy EXCEPT !.wraps = @ + 1, !.off = sum - (MaxOffset + 1)]
                 ELSE [m.entropy EXCEPT !.off = sum]
         IN  [err |-> IF overflow THEN ErrMonotonicOverflow ELSE nil,
              gen |-> [m EXCEPT !.entropy = incremented],
              entropy |-> incremented]
    ELSE LET fresh == [nonce |-> m.reads + 1, wraps |-> 0, off |-> 0]
         IN  [err |-> nil,
              gen |-> [ms |-> ms, entropy |-> fresh, reads |-> m.reads + 1],
              entropy |-> fresh]

\* The two methods, and what they return: op is the method, typ the entity
\* type ("" for GenerateULID), ms and entropy the two parts of the ULID.
\* GenerateID returns "ptd:" + typ + ":" + the ULID in lower case,
\* GenerateULID the ULID.
Methods == {"GenerateID", "GenerateULID"}
FormatID(op, typ, ms, entropy) == [op |-> op, typ |-> typ, ms |-> ms, entropy |-> entropy]
NoID == FormatID("", "", 0, ZeroEntropy)

\* The order of two entropy values as 80-bit numbers, where the model
\* fixes it: values of one read compare by what was added, and a sum that
\* has passed the 80 bits is below one that has not.
EntropyLess(a, b) ==
    /\ a.nonce = b.nonce
    /\ \/ a.wraps = b.wraps /\ a.off < b.off
       \/ a.wraps > 0 /\ b.wraps = 0

\* The order of two ULIDs as strings: the 10 characters of the timestamp,
\* then the 16 of the entropy.
ULIDLess(a, b) ==
    \/ a.ms < b.ms
    \/ a.ms = b.ms /\ EntropyLess(a.entropy, b.entropy)

\* The order of two entity types followed by ":" as strings.
TypeLess(s, t) == s = "event" /\ t = "tournament"

\* The order of two returned strings: a raw ULID starts with a digit and a
\* PTD id with "ptd:"; two PTD ids compare by the entity type first.
StringLess(a, b) ==
    IF a.op # b.op THEN a.op = "GenerateULID"
    ELSE IF a.typ # b.typ THEN TypeLess(a.typ, b.typ)
    ELSE ULIDLess(a, b)

\* sync.Mutex: the goroutine that holds it, NoHolder when unlocked. Lock
\* returns only when the mutex is unlocked.
NoHolder == 0
Goroutines == {1, 2}

\* The milliseconds the wall clock of the study runs over.
Milliseconds == {0, 1}

\* A Lock that does not wait.
TryLock_NoExclusion(holder, g) == TRUE

TryLock(holder, g) == holder = NoHolder

\* Where a goroutine is in a call: at is "idle" outside a call, "Lock"
\* before g.mu.Lock() returns, "Now" before time.Now(), "MustNew" before
\* ulid.MustNew, "Return" before the return and "Panic" while MustNew's
\* panic unwinds (the deferred Unlock runs in both).
IdlePC == [at |-> "idle", op |-> "", typ |-> "", ms |-> 0, id |-> NoID]
InCriticalSection(position) == position.at \in {"Now", "MustNew", "Return", "Panic"}

\* ----------------------------------------------------- ParseID, IsULID

\* A string is the sequence of its characters. The characters of the
\* study: those of the namespace and the separator.
Chars == {"p", "t", "d", ":"}
RECURSIVE StringsOfLen(_)
StringsOfLen(n) ==
    IF n = 0 THEN { <<>> }
    ELSE { Append(s, c) : s \in StringsOfLen(n - 1), c \in Chars }
RECURSIVE StringsUpTo(_)
StringsUpTo(n) == IF n = 0 THEN StringsOfLen(0) ELSE StringsOfLen(n) \cup StringsUpTo(n - 1)

\* strings.Split(s, sep) for a separator of one character: the parts
\* between the separators, one more than there are separators.
RECURSIVE Split(_, _)
Split(s, sep) ==
    IF \A i \in 1..Len(s) : s[i] # sep THEN << s >>
    ELSE LET i == CHOOSE k \in 1..Len(s) :
                     s[k] = sep /\ \A j \in 1..(k - 1) : s[j] # sep
         IN  << SubSeq(s, 1, i - 1) >> \o Split(SubSeq(s, i + 1, Len(s)), sep)

Namespace == << "p", "t", "d" >>
Colon == ":"

\* A ParseID that takes the first three parts of a longer string.
ParseID_AtLeastThree(id) ==
    LET parts == Split(id, Colon)
    IN  IF Len(parts) < 3
        THEN [prefix |-> <<>>, entityType |-> <<>>, identifier |-> <<>>, err |-> errIDFormat]
        ELSE IF parts[1] # Namespace
        THEN [prefix |-> <<>>, entityType |-> <<>>, identifier |-> <<>>, err |-> errIDPrefix]
        ELSE [prefix |-> parts[1], entityType |-> parts[2], identifier |-> parts[3], err |-> nil]

\* ParseID(id)
ParseID(id) ==
    LET parts == Split(id, Colon)
    IN  IF Len(parts) # 3
        THEN [prefix |-> <<>>, entityType |-> <<>>, identifier |-> <<>>, err |-> errIDFormat]
        ELSE IF parts[1] # Namespace
        THEN [prefix |-> <<>>, entityType |-> <<>>, identifier |-> <<>>, err |-> errIDPrefix]
        ELSE [prefix |-> parts[1], entityType |-> parts[2], identifier |-> parts[3], err |-> nil]

\* ValidateID(id)
ValidateID(id) == ParseID(id).err = nil

\* The 26 characters of a ULID, taken as one piece of a string: the
\* timestamp and the entropy they encode in Crockford's base 32, and
\* whether the letters are in lower case. None of the 26 is a colon.
ULIDText(ms, entropy, lower) ==
    << ToString([ms |-> ms, entropy |-> entropy, lower |-> lower]) >>
IsULIDText(s) == Len(s) = 1 /\ s[1] \notin Chars

\* IsULID(s): ulid.ParseStrict wants 26 characters of Crockford's alphabet,
\* in either case, the first of them at most "7" (128 bits). The text of a
\* ULID passes; a string of the characters of the study does not,
\* whatever its length (":" is not in the alphabet, and "p", "t" and "d"
\* are above "7").
IsULID(s) == IsULIDText(s)

\* The string a call of the generator returns, from the parts FormatID
\* records (typ given as its characters): fmt.Sprintf("ptd:%s:%s",
\* entityType, strings.ToLower(id.String())), or id.String().
IDText(id) ==
    IF id.op = "GenerateID"
    THEN Namespace \o << Colon >> \o id.typ \o << Colon >>
             \o ULIDText(id.ms, id.entropy, TRUE)
    ELSE ULIDText(id.ms, id.entropy, FALSE)

\* ------------------------------------------------------------ the state

\* subject  what the caller holds: an "envelope", a "package" or an "archive"
\* env      the envelope (subject "envelope")
\* pkg      the package, that is its Manifest pointer (subject "package")
\* archive  the archive file (subject "archive")
\* dir      the package's working directory
\* clock    time.Now(), counted in calls that read it
\* edits    the changes the caller has made to the document under study:
\*          direct writes, and AddEntities calls
\* last     the last call made and the error it returned; a direct write
\*          resets it
\* wall     the wall clock, in milliseconds
\* gen      the IDGenerator's MonotonicEntropy
\* mu       the IDGenerator's mutex
\* pc       where each goroutine is in its call of the generator
\* issued   the calls of the generator that have ended, in the order they
\*          ended: the string returned, NoID for a call that panicked
\* input    the arguments of a function under study
\* output   what the function returned for them
VARIABLES subject, env, pkg, archive, dir, clock, edits, last,
          wall, gen, mu, pc, issued, input, output

\* The variables of the documents and packages, those of the identifier
\* generator, and those of the functions studied on their own.
docVars == <<subject, env, pkg, archive, dir, clock, edits, last>>
idVars == <<wall, gen, mu, pc, issued>>
fnVars == <<input, output>>
vars == <<subject, env, pkg, archive, dir, clock, edits, last,
          wall, gen, mu, pc, issued, input, output>>

\* The domains of the envelope's fields.
IDs == {"ptd:tournament:01", "ptd:tournament:02"}
TypeTags == {"tournament", "event"}
Names == {"Test", "Changed"}
Schemas == {"ptd.v1.tournament@1.0.0", "ptd.v1.tournament@1.1.0"}
Versions == {1, 2}
Sources == {"test", "other"}
TagSets == {NilSlice, Slice(<<>>), Slice(<<"t1">>)}
Provenances == {"", "imported"}
ExtensionValues == {None} \cup DynValues

\* The payload's optional member X: any interface{} value in a
\* map[string]interface{} payload, a statically typed field in a struct
\* payload (a string, or a float or time encoding/json rejects).
SpecXValues(kind) ==
    IF kind = "Map" THEN {None} \cup DynValues
    ELSE {None, <<"str", "v1">>, Unsupported}

\* An envelope as the tests build it.
NewEnvelope(kind, extensions) ==
    [Kind |-> kind, ID |-> "ptd:tournament:01", Type |-> "tournament",
     Spec |-> [Name |-> "Test", X |-> None],
     Meta |-> [Schema |-> "ptd.v1.tournament@1.0.0", Version |-> 1,
               CreatedAt |-> "T0", UpdatedAt |-> "T0", Source |-> "test",
               Tags |-> NilSlice, Extensions |-> extensions, Signature |-> NilPtr,
               Provenance |-> ""]]

\* The manifest NewPackage makes.
NewManifest ==
    [Version |-> "1.0.0", Created |-> "T0", Creator |-> "ptd-go",
     Description |-> "Test Package", Files |-> [x \in {} |-> 0],
     Entities |-> [x \in {} |-> 0],
     Signature |-> NilPtr]

\* NewPackage(description): the package, with an empty working directory.
NewPackage(description) ==
    [Manifest |-> Ptr([NewManifest EXCEPT !.Created = TimeNow,
                                          !.Description = description])]

EmptyArchive == [IsZip |-> TRUE, File |-> <<>>]

\* The file tables of the study: each path absent, or with an entry that
\* records one of the hashes.
PathSet == {Paths[i] : i \in 1..Len(Paths)}
FileEntryOf(path, hash) == [Path |-> path, Size |-> 4, Hash |-> hash]
FileTables ==
    UNION { { [p \in D |-> FileEntryOf(p, h[p])] : h \in [D -> Hashes] }
            : D \in SUBSET PathSet }

\* The entries an archive of the study may hold.
DataEntries ==
    { [Name |-> p, Data |-> c, Readable |-> r, Man |-> NilPtr]
      : p \in PathSet, c \in Contents, r \in BOOLEAN }
ManifestEntries ==
    { [Name |-> ManifestName, Data |-> "manifest", Readable |-> TRUE,
       Man |-> Ptr([NewManifest EXCEPT !.Files = t])] : t \in FileTables }
    \cup { [Name |-> ManifestName, Data |-> "manifest", Readable |-> FALSE,
            Man |-> NilPtr],
           [Name |-> ManifestName, Data |-> "not json", Readable |-> TRUE,
            Man |-> NilPtr] }

\* The data files of an archive, in archive order: at most one per path.
DataFileLists ==
    {<<>>} \cup { <<e>> : e \in DataEntries }
    \cup { <<e, f>> : e \in {x \in DataEntries : x.Name = Paths[1]},
                      f \in {x \in DataEntries : x.Name = Paths[2]} }
    \cup { <<f, e>> : e \in {x \in DataEntries : x.Name = Paths[1]},
                      f \in {x \in DataEntries : x.Name = Paths[2]} }

\* The archives a caller may hand to OpenPackage: not a zip file at all, or
\* data files with no manifest, or with a manifest.json first or last.
Archives ==
    { [IsZip |-> FALSE, File |-> <<>>] }
    \cup { [IsZip |-> TRUE, File |-> d] : d \in DataFileLists }
    \cup { [IsZip |-> TRUE, File |-> <<m>> \o d] : m \in ManifestEntries, d \in DataFileLists }
    \cup { [IsZip |-> TRUE, File |-> d \o <<m>>] : m \in ManifestEntries, d \in DataFileLists }

\* A call record: the operation, the key it was made with (the signer's
\* private key, the public key handed to a verification; the entity type
\* of an AddEntities, the output path of a CreateArchive; "" otherwise) and
\* the error returned.
Call(op, key, err) == [op |-> op, key |-> key, err |-> err]
NoCall == Call("none", "", nil)

\* No function is under study.
NoInput == <<>>
NoOutput == <<>>

\* A generator no goroutine uses, and no function under study.
IdleGenerator ==
    /\ wall = 0
    /\ gen = NewIDGenerator
    /\ mu = NoHolder
    /\ pc = [g \in Goroutines |-> IdlePC]
    /\ issued = <<>>
    /\ input = NoInput
    /\ output = NoOutput

Init ==
    /\ subject \in {"envelope", "package", "archive"}
    /\ env \in IF subject = "envelope"
               THEN { NewEnvelope(k, None) : k \in StudyKinds }
               ELSE { NewEnvelope("Tournament", None) }
    /\ pkg \in IF subject = "package"
               THEN { [Manifest |-> NilPtr], [Manifest |-> Ptr(NewManifest)] }
               ELSE { [Manifest |-> NilPtr] }
    /\ archive \in IF subject = "archive" THEN Archives ELSE { EmptyArchive }
    /\ dir = EmptyDir
    /\ clock = 0
    /\ edits = 0
    /\ last = NoCall
    /\ IdleGenerator

\* The values the caller can pass as envelope interface{}: the envelope by
\* pointer or by value, or the package's manifest.
CurrentArgs ==
    IF subject = "envelope"
    THEN { Arg("*Envelope", env, NewManifest), Arg("Envelope", env, NewManifest) }
    ELSE IF subject = "package" /\ pkg.Manifest # NilPtr
    THEN { Arg("*Manifest", env, pkg.Manifest[1]) }
    ELSE {}

\* signer.Sign(envelope)
CallSign ==
    /\ clock < MaxSigns
    /\ \E s \in Signers, arg \in CurrentArgs :
         LET r == Sign(s, arg, clock + 1)
         IN  /\ env' = r.env
             /\ pkg' = IF arg.go = "*Manifest" THEN [Manifest |-> Ptr(r.man)] ELSE pkg
             /\ last' = Call("Sign", s.privateKey, r.err)
             \* time.Now() is read once the canonical JSON is there
             /\ clock' = IF HasCanonicalJSON(arg) /\ CanonicalJSON(arg).err = nil
                         THEN clock + 1 ELSE clock
    /\ UNCHANGED <<subject, archive, edits, dir>>
    /\ UNCHANGED <<idVars, fnVars>>

\* The values the caller passes to the verifications: the envelope by
\* pointer, or the package's manifest.
CurrentPtrArgs == { arg \in CurrentArgs : arg.go # "Envelope" }

\* doc.CanonicalJSON(), called by the caller on the envelope or on the
\* package's manifest.
CallDocCanonicalJSON ==
    /\ \E arg \in CurrentPtrArgs :
         /\ last' = Call("CanonicalJSON", "", CanonicalJSON(arg).err)
         /\ env' = AfterCanonicalJSON(arg).env
         /\ pkg' = IF arg.go = "*Manifest"
                   THEN [Manifest |-> Ptr(AfterCanonicalJSON(arg).man)] ELSE pkg
    /\ UNCHANGED <<subject, archive, clock, edits, dir>>
    /\ UNCHANGED <<idVars, fnVars>>

\* Verify(envelope, publicKey)
CallVerify ==
    /\ \E k \in PublicKeys, arg \in CurrentPtrArgs :
         /\ last' = Call("Verify", k, Verify(arg, k))
         /\ env' = AfterVerify(arg).env
         /\ pkg' = IF arg.go = "*Manifest"
                   THEN [Manifest |-> Ptr(AfterVerify(arg).man)] ELSE pkg
    /\ UNCHANGED <<subject, archive, clock, edits, dir>>
    /\ UNCHANGED <<idVars, fnVars>>

\* VerifyWithPublicKeyID(envelope, lookupFunc)
CallVerifyWithPublicKeyID ==
    /\ \E f \in LookupFuncs, arg \in CurrentPtrArgs :
         /\ last' = Call("VerifyWithPublicKeyID", "", VerifyWithPublicKeyID(arg, f))
         /\ env' = AfterVerifyWithPublicKeyID(arg, f).env
         /\ pkg' = IF arg.go = "*Manifest"
                   THEN [Manifest |-> Ptr(AfterVerifyWithPublicKeyID(arg, f).man)]
                   ELSE pkg
    /\ UNCHANGED <<subject, archive, clock, edits, dir>>
    /\ UNCHANGED <<idVars, fnVars>>

\* pkg.SignPackage(signer)
CallSignPackage ==
    /\ subject \in {"package", "build"}
    /\ clock < MaxSigns
    /\ \E s \in Signers :
         LET r == SignPackage(pkg, s, clock + 1)
         IN  /\ pkg' = r.pkg
             /\ last' = Call("SignPackage", s.privateKey, r.err)
             /\ clock' = IF r.err = nil THEN clock + 1 ELSE clock
    /\ UNCHANGED <<subject, env, archive, edits, dir>>
    /\ UNCHANGED <<idVars, fnVars>>

\* pkg.VerifyPackageSignature(publicKey)
CallVerifyPackageSignature ==
    /\ subject \in {"package", "build"}
    /\ \E k \in PublicKeys \cup {NotAKey} :
         last' = Call("VerifyPackageSignature", k, VerifyPackageSignature(pkg, k))
    /\ pkg' = AfterVerifyPackageSignature(pkg)
    /\ UNCHANGED <<subject, env, archive, clock, edits, dir>>
    /\ UNCHANGED <<idVars, fnVars>>

\* OpenPackage(archivePath)
CallOpenPackage ==
    /\ subject \in {"archive", "build"}
    /\ last' = Call("OpenPackage", "", OpenPackage(archive).err)
    /\ UNCHANGED <<subject, env, pkg, archive, clock, edits, dir>>
    /\ UNCHANGED <<idVars, fnVars>>

\* pkg.AddEntities(entityType, entities). On the package under study it
\* counts as a change made by the caller; in a build it is not counted.
CallAddEntities ==
    /\ subject \in {"package", "build"}
    /\ pkg.Manifest # NilPtr
    /\ subject = "package" => edits < MaxEdits
    /\ \E i \in 1..Len(EntityTypes), entities \in EntityLists :
         LET r == AddEntities(pkg, dir, EntityTypes[i], entities)
         IN  /\ pkg' = r.pkg
             /\ dir' = r.dir
             /\ last' = Call("AddEntities", EntityTypes[i], r.err)
    /\ edits' = IF subject = "package" THEN edits + 1 ELSE edits
    /\ UNCHANGED <<subject, env, archive, clock>>
    /\ UNCHANGED <<idVars, fnVars>>

\* ------------------------------------------- the caller's direct writes

\* The envelopes one write to a signed part of e gives: the id, the type,
\* the payload, or a metadata field other than the signature, set to
\* another value.
EnvelopeEdits(e) ==
    { [e EXCEPT !.ID = v] : v \in IDs \ {e.ID} }
    \cup { [e EXCEPT !.Type = v] : v \in TypeTags \ {e.Type} }
    \cup { [e EXCEPT !.Spec.Name = v] : v \in Names \ {e.Spec.Name} }
    \cup { [e EXCEPT !.Spec.X = v] : v \in SpecXValues(e.Kind) \ {e.Spec.X} }
    \cup { [e EXCEPT !.Meta.Schema = v] : v \in Schemas \ {e.Meta.Schema} }
    \cup { [e EXCEPT !.Meta.Version = v] : v \in Versions \ {e.Meta.Version} }
    \cup { [e EXCEPT !.Meta.CreatedAt = v] : v \in Times \ {e.Meta.CreatedAt} }
    \cup { [e EXCEPT !.Meta.UpdatedAt = v] : v \in (Times \ {TimeBad}) \ {e.Meta.UpdatedAt} }
    \cup { [e EXCEPT !.Meta.Source = v] : v \in Sources \ {e.Meta.Source} }
    \cup { [e EXCEPT !.Meta.Tags = v] : v \in TagSets \ {e.Meta.Tags} }
    \cup { [e EXCEPT !.Meta.Extensions = v] : v \in ExtensionValues \ {e.Meta.Extensions} }
    \cup { [e EXCEPT !.Meta.Provenance = v] : v \in Provenances \ {e.Meta.Provenance} }

\* A signature a caller may write that no signer made (the tests attach
\* one with the signature string "test-signature").
TestSignature ==
    [Algorithm |-> "ed25519", PublicKeyID |-> "key-1",
     Signature |-> [form |-> "bad", data |-> NoBytes], SignedAt |-> 0,
     SignedBy |-> "test-signer"]

\* The values one write to a Signature pointer p gives: the stored string
\* replaced by another spelling of the same bytes, by a string that is no
\* base64, or by the encoding of other bytes; the key id replaced; the
\* signing time set to one json.Marshal rejects; the signature removed; a
\* signature written where none was.
SignatureEdits(p) ==
    IF p = NilPtr THEN { Ptr(TestSignature) }
    ELSE { Ptr([p[1] EXCEPT !.Signature.form = f]) : f \in {"std", "alt", "bad"} \ {p[1].Signature.form} }
         \cup { Ptr([p[1] EXCEPT !.Signature.data.bits = 1 - @]) }
         \cup { Ptr([p[1] EXCEPT !.PublicKeyID = k]) : k \in KeyIDs \ {p[1].PublicKeyID} }
         \cup { Ptr([p[1] EXCEPT !.SignedAt = t]) : t \in {BeforeYearZero} \ {p[1].SignedAt} }
         \cup { NilPtr }

\* The manifests one write to a signed part of m, or to its file table,
\* gives.
ManifestEdits(m) ==
    { [m EXCEPT !.Version = v] : v \in {"1.0.0", "2.0.0"} \ {m.Version} }
    \cup { [m EXCEPT !.Created = v] : v \in Times \ {m.Created} }
    \cup { [m EXCEPT !.Creator = v] : v \in {"ptd-go", "other"} \ {m.Creator} }
    \cup { [m EXCEPT !.Description = v] : v \in {"Test Package", "Changed"} \ {m.Description} }
    \cup { [m EXCEPT !.Entities = v]
           : v \in UNION { [D -> {1}] : D \in SUBSET {"event", "tournament"} }
                  \ {m.Entities} }
    \cup { [m EXCEPT !.Files = v]
           : v \in { t \in FileTables : \A q \in DOMAIN t : t[q].Hash = "h1" } \ {m.Files} }

\* envelope.<field> = value
EditEnvelope ==
    /\ subject = "envelope"
    /\ edits < MaxEdits
    /\ env' \in EnvelopeEdits(env)
    /\ edits' = edits + 1
    /\ last' = NoCall
    /\ UNCHANGED <<subject, pkg, archive, clock, dir>>
    /\ UNCHANGED <<idVars, fnVars>>

\* envelope.Meta.Signature = ..., pkg.Manifest.Signature = ...
EditSignature ==
    /\ edits < MaxEdits
    /\ \/ /\ subject = "envelope"
          /\ \E p \in SignatureEdits(env.Meta.Signature) :
               env' = [env EXCEPT !.Meta.Signature = p]
          /\ UNCHANGED pkg
       \/ /\ subject = "package"
          /\ pkg.Manifest # NilPtr
          /\ \E p \in SignatureEdits(pkg.Manifest[1].Signature) :
               pkg' = [Manifest |-> Ptr([pkg.Manifest[1] EXCEPT !.Signature = p])]
          /\ UNCHANGED env
    /\ edits' = edits + 1
    /\ last' = NoCall
    /\ UNCHANGED <<subject, archive, clock, dir>>
    /\ UNCHANGED <<idVars, fnVars>>

\* pkg.Manifest.<field> = value
EditManifest ==
    /\ subject = "package"
    /\ pkg.Manifest # NilPtr
    /\ edits < MaxEdits
    /\ \E m \in ManifestEdits(pkg.Manifest[1]) : pkg' = [Manifest |-> Ptr(m)]
    /\ edits' = edits + 1
    /\ last' = NoCall
    /\ UNCHANGED <<subject, env, archive, clock, dir>>
    /\ UNCHANGED <<idVars, fnVars>>

\* One data file of the archive is overwritten in place with other bytes;
\* the entry's CRC-32 is either recomputed or left stale, and a stale one
\* makes the read fail.
TamperArchive ==
    /\ subject = "archive"
    /\ edits < MaxEdits
    /\ \E i \in 1..Len(archive.File), c \in Contents, crcFixed \in BOOLEAN :
         /\ archive.File[i].Name # ManifestName
         /\ c # archive.File[i].Data
         /\ archive' = [archive EXCEPT !.File[i].Data = c,
                                       !.File[i].Readable = @ /\ crcFixed]
    /\ edits' = edits + 1
    /\ last' = NoCall
    /\ UNCHANGED <<subject, env, pkg, clock, dir>>
    /\ UNCHANGED <<idVars, fnVars>>

Next ==
    \/ CallSign
    \/ CallVerify
    \/ CallVerifyWithPublicKeyID
    \/ CallSignPackage
    \/ CallVerifyPackageSignature
    \/ CallOpenPackage
    \/ CallAddEntities
    \/ EditEnvelope
    \/ EditSignature
    \/ EditManifest
    \/ TamperArchive

Spec == Init /\ [][Next]_vars

\* The same documents, with the caller's own calls of CanonicalJSON.
ReadNext ==
    \/ Next
    \/ CallDocCanonicalJSON

ReadSpec == Init /\ [][ReadNext]_vars

\* ------------------------------------------------- building a package

\* The descriptions NewPackage is given.
Descriptions == {"Test Package", InvalidUTF8}

\* pkg := NewPackage(description), with nothing yet at the output path.
BuildInit ==
    /\ subject = "build"
    /\ env = NewEnvelope("Tournament", None)
    /\ pkg \in { NewPackage(d) : d \in Descriptions }
    /\ archive = [IsZip |-> FALSE, File |-> <<>>]
    /\ dir = EmptyDir
    /\ clock = 0
    /\ edits = 0
    /\ last = NoCall
    /\ IdleGenerator

\* The CreateArchive calls that got as far as writing manifest.json,
\* counted in the working directory and the file table they leave.
ArchivesMade == IF ManifestName \in DOMAIN pkg.Manifest[1].Files THEN 2
                ELSE IF ManifestName \in DOMAIN dir THEN 1 ELSE 0

\* pkg.CreateArchive(outputPath)
CallCreateArchive ==
    /\ subject = "build"
    /\ ArchivesMade < MaxArchives
    /\ \E outputPath \in OutputPaths :
         LET r == CreateArchive(pkg, dir, archive, outputPath)
         IN  /\ pkg' = r.pkg
             /\ dir' = r.dir
             /\ archive' = r.archive
             /\ last' = Call("CreateArchive", outputPath, r.err)
    /\ UNCHANGED <<subject, env, clock, edits>>
    /\ UNCHANGED <<idVars, fnVars>>

\* The build under study: entities are added, the package is signed, then
\* it is archived and the archive opened.
Building == ArchivesMade = 0

BuildNext ==
    \/ Building /\ CallAddEntities
    \/ Building /\ CallSignPackage
    \/ CallVerifyPackageSignature
    \/ CallCreateArchive
    \/ CallOpenPackage

BuildSpec == BuildInit /\ [][BuildNext]_vars

\* ------------------------------- replacing a file of a signed archive

\* What a build leaves: NewPackage(description), AddEntities of one entity
\* type, SignPackage by signer s and CreateArchive(outputPath). With
\* listed, the caller has written the entries of the entity files into
\* pkg.Manifest.Files before the SignPackage, as CreateArchive will write
\* them, so the package is signed with its file table filled.
SignedBuild(description, entityType, entities, s, listed, outputPath) ==
    LET added == AddEntities(NewPackage(description), EmptyDir, entityType, entities)
        files == [q \in DOMAIN added.dir |->
                     [Path |-> q, Size |-> SizeOf(added.dir[q]),
                      Hash |-> Sha256Hex[added.dir[q]]]]
        first == IF listed
                 THEN [Manifest |-> Ptr([added.pkg.Manifest[1] EXCEPT !.Files = files])]
                 ELSE added.pkg
        signed == SignPackage(first, s, 1)
        archived == CreateArchive(signed.pkg, added.dir,
                                  [IsZip |-> FALSE, File |-> <<>>], outputPath)
    IN  [err |-> IF added.err # nil THEN added.err
                 ELSE IF signed.err # nil THEN signed.err
                 ELSE archived.err,
         pkg |-> archived.pkg, dir |-> archived.dir, archive |-> archived.archive]

SignedBuilds ==
    { b \in { SignedBuild(d, EntityTypes[i], entities, s, listed, outputPath)
               : d \in Descriptions, i \in 1..Len(EntityTypes),
                 entities \in EntityLists, s \in Signers, listed \in BOOLEAN,
                 outputPath \in OutputPaths }
      : b.err = nil }

\* A signed package has been built and archived.
SwapInit ==
    /\ subject = "build"
    /\ env = NewEnvelope("Tournament", None)
    /\ \E b \in SignedBuilds :
         /\ pkg = b.pkg
         /\ dir = b.dir
         /\ archive = b.archive
    /\ clock = 1
    /\ edits = 0
    /\ last = NoCall
    /\ IdleGenerator

\* The contents a data file of an archive may be given.
FileContents == Contents \cup {"c0"}

\* The archive is rewritten with other bytes for one data file and, in the
\* file table of its manifest.json, the SHA-256 and the size of these bytes
\* in the file's entry. Nothing else of the manifest changes.
ReplaceFileAndHash ==
    /\ subject = "build"
    /\ edits < MaxEdits
    /\ archive.IsZip
    /\ LET m == FindManifest(archive.File, 1)
       IN  /\ m # 0
           /\ archive.File[m].Man # NilPtr
           /\ \E i \in 1..Len(archive.File), c \in FileContents :
                LET name == archive.File[i].Name
                IN  /\ name # ManifestName
                    /\ name \in DOMAIN archive.File[m].Man[1].Files
                    /\ c # archive.File[i].Data
                    /\ archive' =
                         [archive EXCEPT
                            !.File[i].Data = c,
                            !.File[m].Man =
                                Ptr([@[1] EXCEPT !.Files[name].Hash = Sha256Hex[c],
                                                 !.Files[name].Size = SizeOf(c)])]
    /\ edits' = edits + 1
    /\ last' = NoCall
    /\ UNCHANGED <<subject, env, pkg, clock, dir>>
    /\ UNCHANGED <<idVars, fnVars>>

\* opened, err := OpenPackage(archivePath); when it succeeds, the caller
\* goes on with the opened package.
OpenAndKeep ==
    /\ subject = "build"
    /\ LET r == OpenPackage(archive)
       IN  /\ pkg' = IF r.err = nil THEN r.pkg[1] ELSE pkg
           /\ last' = Call("OpenPackage", "", r.err)
    /\ UNCHANGED <<subject, env, archive, clock, edits, dir>>
    /\ UNCHANGED <<idVars, fnVars>>

SwapNext ==
    \/ ReplaceFileAndHash
    \/ OpenAndKeep
    \/ CallVerifyPackageSignature

SwapSpec == SwapInit /\ [][SwapNext]_vars

\* ------------------------------------------- generating identifiers

\* g := NewIDGenerator(), at any time of the wall clock.
IDInit ==
    /\ subject = "ids"
    /\ env = NewEnvelope("Tournament", None)
    /\ pkg = [Manifest |-> NilPtr]
    /\ archive = EmptyArchive
    /\ dir = EmptyDir
    /\ clock = 0
    /\ edits = 0
    /\ last = NoCall
    /\ wall \in Milliseconds
    /\ gen = NewIDGenerator
    /\ mu = NoHolder
    /\ pc = [g \in Goroutines |-> IdlePC]
    /\ issued = <<>>
    /\ input = NoInput
    /\ output = NoOutput

\* The calls made so far: those that have ended and those under way.
CallsStarted == Len(issued) + Cardinality({ g \in Goroutines : pc[g].at # "idle" })

\* Goroutine g calls g.GenerateID(entityType) or g.GenerateULID().
CallGenerate(g) ==
    /\ subject = "ids"
    /\ pc[g].at = "idle"
    /\ CallsStarted < MaxCalls
    /\ \E op \in Methods :
         \E typ \in IF op = "GenerateID" THEN TypeTags ELSE {""} :
            pc' = [pc EXCEPT ![g] = [IdlePC EXCEPT !.at = "Lock", !.op = op, !.typ = typ]]
    /\ UNCHANGED <<wall, gen, mu, issued>>
    /\ UNCHANGED <<docVars, fnVars>>

\* g.mu.Lock() returns.
Lock(g) ==
    /\ pc[g].at = "Lock"
    /\ TryLock(mu, g)
    /\ mu' = g
    /\ pc' = [pc EXCEPT ![g].at = "Now"]
    /\ UNCHANGED <<wall, gen, issued>>
    /\ UNCHANGED <<docVars, fnVars>>

\* ulid.Timestamp(time.Now()): the wall clock in milliseconds.
ReadClock(g) ==
    /\ pc[g].at = "Now"
    /\ pc' = [pc EXCEPT ![g].at = "MustNew", ![g].ms = wall]
    /\ UNCHANGED <<wall, gen, mu, issued>>
    /\ UNCHANGED <<docVars, fnVars>>

\* ulid.MustNew(ms, g.entropy) and the formatting of the result; MustNew
\* panics when MonotonicRead returns an error.
MustNew(g) ==
    /\ pc[g].at = "MustNew"
    /\ \E inc \in Increments :
         LET r == MonotonicRead(gen, pc[g].ms, inc)
         IN  /\ gen' = r.gen
             /\ pc' = [pc EXCEPT
                         ![g].at = IF r.err = nil THEN "Return" ELSE "Panic",
                         ![g].id = IF r.err = nil
                                   THEN FormatID(pc[g].op, pc[g].typ, pc[g].ms, r.entropy)
                                   ELSE NoID]
    /\ UNCHANGED <<wall, mu, issued>>
    /\ UNCHANGED <<docVars, fnVars>>

\* The call ends, by a return or by the panic: the deferred g.mu.Unlock()
\* runs.
Return(g) ==
    /\ pc[g].at \in {"Return", "Panic"}
    /\ mu' = NoHolder
    /\ issued' = Append(issued, pc[g].id)
    /\ pc' = [pc EXCEPT ![g] = IdlePC]
    /\ UNCHANGED <<wall, gen>>
    /\ UNCHANGED <<docVars, fnVars>>

\* A millisecond passes.
Tick ==
    /\ subject = "ids"
    /\ wall + 1 \in Milliseconds
    /\ wall' = wall + 1
    /\ UNCHANGED <<gen, mu, pc, issued>>
    /\ UNCHANGED <<docVars, fnVars>>

\* The wall clock is set back (time.Now() is not monotonic across an
\* adjustment of the system clock).
StepBack ==
    /\ subject = "ids"
    /\ wall - 1 \in Milliseconds
    /\ wall' = wall - 1
    /\ UNCHANGED <<gen, mu, pc, issued>>
    /\ UNCHANGED <<docVars, fnVars>>

IDNext ==
    \/ \E g \in Goroutines : CallGenerate(g)
    \/ \E g \in Goroutines : Lock(g)
    \/ \E g \in Goroutines : ReadClock(g)
    \/ \E g \in Goroutines : MustNew(g)
    \/ \E g \in Goroutines : Return(g)
    \/ Tick
    \/ StepBack

IDSpec == IDInit /\ [][IDNext]_vars

\* A goroutine inside a call takes its next step, and a goroutine that
\* waits for the mutex gets it (sync.Mutex hands the mutex to a waiter
\* that has waited long).
IDFairSpec ==
    /\ IDSpec
    /\ \A g \in Goroutines :
          /\ WF_vars(ReadClock(g) \/ MustNew(g) \/ Return(g))
          /\ SF_vars(Lock(g))

\* ------------------------------------------- functions on their own

\* m[k] = v on a Go map.
MapInsert(m, k, v) == [t \in DOMAIN m \cup {k} |-> IF t = k THEN v ELSE m[t]]

\* The map that holds the entries of m, filled by inserting its keys in
\* the order keys.
RECURSIVE InsertedIn(_, _, _)
InsertedIn(m, keys, i) ==
    IF i = 0 THEN [x \in {} |-> 0]
    ELSE IF keys[i] \in DOMAIN m
    THEN MapInsert(InsertedIn(m, keys, i - 1), keys[i], m[keys[i]])
    ELSE InsertedIn(m, keys, i - 1)

\* The documents whose canonical form is studied: envelopes with a map,
\* a struct or a string in the payload and a map in the extensions, and
\* manifests with zero to two entity counts.
CanonicalDocs ==
    { Arg("*Envelope",
          [NewEnvelope("Map", ext) EXCEPT !.Spec.X = x], NewManifest) :
        x \in {None, <<"str", "v1">>, StructZA, MapAZ, Unsupported},
        ext \in {None, MapAZ} }
    \cup { Arg("*Manifest", NewEnvelope("Tournament", None),
               [NewManifest EXCEPT !.Entities = counts, !.Created = t]) :
             counts \in UNION { [ts -> {1, 2}] : ts \in SUBSET {"event", "tournament"} },
             t \in {"T0", TimeBad} }

\* The document arg with its maps as one more range, or one more order of
\* insertion, leaves them: the maps of the envelope are ranged over in the
\* order ks, the entity counts of the manifest have been inserted in the
\* order ks of the entity types; sig is the signature attached.
EntityTypesIn(ks) == IF ks = "az" THEN EntityTypes ELSE << EntityTypes[2], EntityTypes[1] >>
Reranged(v, ks) == IF v[1] = "map" THEN << "map", ks >> ELSE v
DocWith(arg, ks, sig) ==
    IF arg.go = "*Manifest"
    THEN [arg EXCEPT !.man.Entities = InsertedIn(@, EntityTypesIn(ks), 2),
                     !.man.Signature = sig]
    ELSE [arg EXCEPT !.env.Spec.X = Reranged(@, ks),
                     !.env.Meta.Extensions = Reranged(@, ks),
                     !.env.Meta.Signature = sig]

\* The functions that depend on their arguments alone are studied one call
\* at a time: input is the function and its argument, output what the call
\* returned.
FnInputs ==
    { [fn |-> "ParseID", arg |-> s] : s \in StringsUpTo(MaxLen) }
    \cup { [fn |-> "GenerateID", arg |-> t] : t \in StringsUpTo(MaxTypeLen) }
    \cup { [fn |-> "CanonicalJSON", doc |-> d] : d \in CanonicalDocs }
    \cup { [fn |-> "ParseKey", str |-> [form |-> f, data |-> KeyBytes(n, "key")]] :
             f \in {"std", "alt", "bad"}, n \in KeyLens }
    \cup { [fn |-> "GenerateKeyPair", seed |-> k] : k \in PrivateKeys }
    \cup { [fn |-> "Validate",
             env |-> [NewEnvelope(k, None) EXCEPT !.ID = id, !.Type = t, !.Meta.Schema = sch]] :
             k \in StudyKinds, id \in {"", "ptd:tournament:01", "not an id"},
             t \in {"", "tournament"}, sch \in {"", "ptd.v1.tournament@1.0.0"} }

FnInit ==
    /\ subject = "call"
    /\ env = NewEnvelope("Tournament", None)
    /\ pkg = [Manifest |-> NilPtr]
    /\ archive = EmptyArchive
    /\ dir = EmptyDir
    /\ clock = 0
    /\ edits = 0
    /\ last = NoCall
    /\ wall = 0
    /\ gen = NewIDGenerator
    /\ mu = NoHolder
    /\ pc = [g \in Goroutines |-> IdlePC]
    /\ issued = <<>>
    /\ input \in FnInputs
    /\ output = NoOutput

Pending(fn) == subject = "call" /\ input.fn = fn /\ output = NoOutput
Done(fn) == subject = "call" /\ input.fn = fn /\ output # NoOutput

\* ParseID(id) and ValidateID(id)
CallParseID ==
    /\ Pending("ParseID")
    /\ output' = [parsed |-> ParseID(input.arg), valid |-> ValidateID(input.arg)]
    /\ UNCHANGED <<docVars, idVars, input>>

\* id := GenerateID(entityType) at some millisecond, then ParseID(id).
CallGenerateID ==
    /\ Pending("GenerateID")
    /\ \E ms \in Milliseconds, inc \in Increments :
         LET r == MonotonicRead(NewIDGenerator, ms, inc)
             id == IDText(FormatID("GenerateID", input.arg, ms, r.entropy))
         IN  output' = [id |-> id, parsed |-> ParseID(id)]
    /\ UNCHANGED <<docVars, idVars, input>>

\* doc.CanonicalJSON() twice, on two documents of the same content: the
\* runtime ranges over the maps in an order of its choice at each call, and
\* the signature attached is any.
CallCanonicalJSON ==
    /\ Pending("CanonicalJSON")
    /\ \E ks1 \in RangeOrders, ks2 \in RangeOrders :
         \E sig1 \in {NilPtr, Ptr(TestSignature)}, sig2 \in {NilPtr, Ptr(TestSignature)} :
            output' = [first |-> CanonicalJSON(DocWith(input.doc, ks1, sig1)),
                       second |-> CanonicalJSON(DocWith(input.doc, ks2, sig2)),
                       orders |-> << ks1, ks2 >>]
    /\ UNCHANGED <<docVars, idVars, input>>

\* ParsePublicKey(str) and ParsePrivateKey(str)
CallParseKey ==
    /\ Pending("ParseKey")
    /\ output' = [pub |-> ParsePublicKey(input.str), priv |-> ParsePrivateKey(input.str)]
    /\ UNCHANGED <<docVars, idVars, input>>

\* kp, _ := GenerateKeyPair(), then ParsePublicKey(kp.PublicKey) and
\* ParsePrivateKey(kp.PrivateKey).
CallGenerateKeyPair ==
    /\ Pending("GenerateKeyPair")
    /\ LET kp == GenerateKeyPair(input.seed)
       IN  output' = [kp |-> kp, pub |-> ParsePublicKey(kp.PublicKey),
                      priv |-> ParsePrivateKey(kp.PrivateKey)]
    /\ UNCHANGED <<docVars, idVars, input>>

\* envelope.Validate()
CallValidate ==
    /\ Pending("Validate")
    /\ output' = [err |-> Validate(input.env)]
    /\ UNCHANGED <<docVars, idVars, input>>

FnNext ==
    \/ CallValidate
    \/ CallParseKey
    \/ CallGenerateKeyPair
    \/ CallParseID
    \/ CallGenerateID
    \/ CallCanonicalJSON

FnSpec == FnInit /\ [][FnNext]_vars

\* ----------------------------------------------------------- the claims

\* An envelope passed by pointer, as the tests pass it.
EnvPtrOf(e) == Arg("*Envelope", e, NewManifest)
EnvPtr == EnvPtrOf(env)

\* The signer a Sign or SignPackage call record names, and its public key.
LastSigner == CHOOSE s \in Signers : s.privateKey = last.key
LastSignerKey == PublicOf[last.key]

\* The signature pointer of the document the caller holds.
DocSignatureOf(e, p) ==
    IF subject = "envelope" THEN e.Meta.Signature
    ELSE IF subject = "package" /\ p.Manifest # NilPtr THEN p.Manifest[1].Signature
    ELSE NilPtr
DocSignature == DocSignatureOf(env, pkg)

\* The canonical JSON of the document the caller holds.
DocCanonicalJSON ==
    IF subject = "envelope" THEN EnvelopeCanonicalJSON(env)
    ELSE ManifestCanonicalJSON(pkg.Manifest[1])

\* Verify for an envelope, VerifyPackageSignature for a package.
VerifyDocOf(e, p, k) ==
    IF subject = "envelope" THEN Verify(EnvPtrOf(e), k)
    ELSE VerifyPackageSignature(p, k)
VerifyDoc(k) == VerifyDocOf(env, pkg, k)

\* C1: after a successful Sign of an envelope by signer A, Verify with A's
\* public key succeeds, whatever the payload type.
C1_SignThenVerify ==
    (subject = "envelope" /\ last.op = "Sign" /\ last.err = nil)
        => Verify(EnvPtr, LastSignerKey) = nil

\* The signatures C2 attaches: none, one no signer made, the one the
\* envelope has, and the ones the signers make of the envelope as it is.
SampleSignatures ==
    { NilPtr, Ptr(TestSignature), env.Meta.Signature }
    \cup { Sign(s, EnvPtr, t).env.Meta.Signature : s \in Signers, t \in 1..2 }

\* C2: the canonical JSON of an envelope with any signature attached is
\* the bytes of the envelope with none (so the same for any two
\* signatures), and holds no signature member.
C2_CanonicalSignatureInvariance ==
    subject = "envelope" =>
        LET unsigned == EnvelopeCanonicalJSON([env EXCEPT !.Meta.Signature = NilPtr])
        IN  \A p \in SampleSignatures :
                LET signed == EnvelopeCanonicalJSON([env EXCEPT !.Meta.Signature = p])
                IN  /\ signed = unsigned
                    /\ \A i \in 1..Len(signed.bytes) : signed.bytes[i] # "signature"

\* C2's case: an envelope signed twice, whose canonical JSON exists.
C2_Witness ==
    /\ subject = "envelope"
    /\ last.op = "Sign" /\ last.err = nil /\ clock = 2
    /\ env.Meta.Signature # NilPtr
    /\ EnvelopeCanonicalJSON(env).err = nil
    /\ Len(EnvelopeCanonicalJSON(env).bytes) > 0

\* C3, as claimed: a write to a signed part of an envelope after a
\* successful Sign makes Verify with the signer's key return
\* ErrSignatureFailed.
C3_TamperGivesSignatureFailed ==
    [][ (subject = "envelope" /\ last.op = "Sign" /\ last.err = nil
         /\ env' \in EnvelopeEdits(env))
        => Verify(EnvPtrOf(env'), LastSignerKey) = ErrSignatureFailed ]_vars

\* C3, amended: when Verify with key k accepts an envelope, and a write to
\* a signed part then changes its canonical JSON, Verify with k fails: with
\* ErrSignatureFailed if its canonical JSON can still be computed, with
\* the marshalling error of its branch otherwise.
C3_TamperFailsVerification ==
    [][ \A k \in PublicKeys :
          (subject = "envelope" /\ Verify(EnvPtr, k) = nil
           /\ env' \in EnvelopeEdits(env)
           /\ EnvelopeCanonicalJSON(env') # EnvelopeCanonicalJSON(env))
          => Verify(EnvPtrOf(env'), k)
               = IF EnvelopeCanonicalJSON(env').err = nil THEN ErrSignatureFailed
                 ELSE IF env'.Kind \in SwitchKinds THEN errCanonicalJSON
                 ELSE errMarshalEnvelope ]_vars

\* C3's case: an envelope whose signature was made over other bytes than
\* its canonical JSON now, and Verify with the signing key has just
\* returned ErrSignatureFailed.
C3_Witness ==
    /\ subject = "envelope" /\ edits = 1
    /\ env.Kind \in SwitchKinds
    /\ env.Meta.Signature # NilPtr
    /\ env.Meta.Signature[1].Signature.form = "std"
    /\ env.Meta.Signature[1].Signature.data.bits = 0
    /\ EnvelopeCanonicalJSON(env).err = nil
    /\ env.Meta.Signature[1].Signature.data.msg # EnvelopeCanonicalJSON(env).bytes
    /\ last.op = "Verify" /\ last.key = env.Meta.Signature[1].Signature.data.key
    /\ last.err = ErrSignatureFailed

\* C4: after a successful Sign (SignPackage) by one signer, Verify
\* (VerifyPackageSignature) with any other signer's public key returns
\* exactly ErrSignatureFailed.
C4_WrongKeyGivesSignatureFailed ==
    /\ (subject = "envelope" /\ last.op = "Sign" /\ last.err = nil)
         => \A k \in PublicKeys \ {LastSignerKey} :
              Verify(EnvPtr, k) = ErrSignatureFailed
    /\ (subject = "package" /\ last.op = "SignPackage" /\ last.err = nil)
         => \A k \in PublicKeys \ {LastSignerKey} :
              VerifyPackageSignature(pkg, k) = ErrSignatureFailed

\* C4's case: an envelope of a type the fallback branch handles has just
\* been signed, and Verify accepts it with the signer's key and not with
\* another.
C4_Witness ==
    /\ subject = "envelope" /\ env.Kind \in FallbackKinds
    /\ last.op = "Sign" /\ last.err = nil
    /\ Verify(EnvPtr, LastSignerKey) = nil
    /\ \E k \in PublicKeys : k # LastSignerKey /\ Verify(EnvPtr, k) = ErrSignatureFailed

\* C5: Verify of an envelope with no signature, and VerifyPackageSignature
\* of a package whose manifest has none, return exactly ErrSignatureMissing
\* for every public key.
C5_UnsignedGivesSignatureMissing ==
    /\ (subject = "envelope" /\ env.Meta.Signature = NilPtr)
         => \A k \in PublicKeys : Verify(EnvPtr, k) = ErrSignatureMissing
    /\ (subject = "package" /\ pkg.Manifest # NilPtr
        /\ pkg.Manifest[1].Signature = NilPtr)
         => \A k \in PublicKeys : VerifyPackageSignature(pkg, k) = ErrSignatureMissing

\* The two-step classification of the stored signature string by the
\* verification with key k: a string that is no base64 gives
\* ErrSignatureInvalid, one that decodes to bytes that do not verify over
\* the canonical JSON gives ErrSignatureFailed.
TwoStepClassification(k) ==
    LET str == DocSignature[1].Signature
    IN  /\ str.form = "bad" => VerifyDoc(k) = ErrSignatureInvalid
        /\ (str.form # "bad" /\ DocCanonicalJSON.err = nil
            /\ ~(str.data.bits = 0 /\ str.data.key = k
                 /\ str.data.msg = DocCanonicalJSON.bytes))
             => VerifyDoc(k) = ErrSignatureFailed

\* A write that replaces the stored signature string by another string and
\* leaves the rest of the signature and of the document alone.
SignatureStringReplaced ==
    /\ last' = NoCall
    /\ DocSignature # NilPtr
    /\ DocSignatureOf(env', pkg') # NilPtr
    /\ DocSignatureOf(env', pkg')[1].Signature # DocSignature[1].Signature
    /\ DocSignatureOf(env', pkg')[1]
         = [DocSignature[1] EXCEPT !.Signature = DocSignatureOf(env', pkg')[1].Signature]

\* C6, as claimed: a present signature is classified in the two steps, and
\* replacing the stored signature string of a document that verifies makes
\* the verification fail with ErrSignatureInvalid or ErrSignatureFailed.
C6_CorruptedSignatureFails ==
    [][ \A k \in PublicKeys :
          /\ DocSignature # NilPtr => TwoStepClassification(k)
          /\ (VerifyDoc(k) = nil /\ SignatureStringReplaced)
               => VerifyDocOf(env', pkg', k)
                    \in {ErrSignatureInvalid, ErrSignatureFailed} ]_vars

\* Whether the verification gets to the stored signature: extractSignature
\* reads it (its fallback branch marshals the whole envelope, signature
\* included) and the canonical JSON can be computed.
DocReadable ==
    /\ subject = "envelope" => extractSignature(EnvPtr).err = nil
    /\ DocCanonicalJSON.err = nil

\* C6, amended: for a document whose signature can be read and whose
\* canonical JSON can be computed, a present signature is classified in
\* the two steps; and replacing the stored signature string of a document that verifies by a string that is
\* no base64, or that decodes to other bytes, makes the verification fail
\* with ErrSignatureInvalid or ErrSignatureFailed.
C6_CorruptedBytesFail ==
    /\ [](\A k \in PublicKeys :
            (DocSignature # NilPtr /\ DocReadable)
               => TwoStepClassification(k))
    /\ [][ \A k \in PublicKeys :
            (SignatureStringReplaced /\ VerifyDoc(k) = nil
             /\ (DocSignatureOf(env', pkg')[1].Signature.form = "bad"
                 \/ DocSignatureOf(env', pkg')[1].Signature.data
                      # DocSignature[1].Signature.data))
               => VerifyDocOf(env', pkg', k)
                    \in {ErrSignatureInvalid, ErrSignatureFailed} ]_vars

\* C6's case: the signature bytes a signer made of the envelope, stored as
\* a string that is no base64, and Verify with the signer's key has just
\* returned ErrSignatureInvalid.
C6_Witness ==
    /\ subject = "envelope" /\ edits = 1
    /\ env.Meta.Signature # NilPtr
    /\ env.Meta.Signature[1].Signature.form = "bad"
    /\ env.Meta.Signature[1].Signature.data.bits = 0
    /\ EnvelopeCanonicalJSON(env).err = nil
    /\ env.Meta.Signature[1].Signature.data.msg = EnvelopeCanonicalJSON(env).bytes
    /\ last.op = "Verify" /\ last.key = env.Meta.Signature[1].Signature.data.key
    /\ last.err = ErrSignatureInvalid

\* C7: after a successful Sign of an envelope, the first or a later one, the
\* envelope's one signature has the key id and the identity of the signer
\* of that call, Verify succeeds with that signer's public key and returns
\* ErrSignatureFailed with every other signer's.
C7_ResignReplaces ==
    (subject = "envelope" /\ last.op = "Sign" /\ last.err = nil)
        => /\ env.Meta.Signature # NilPtr
           /\ env.Meta.Signature[1].PublicKeyID = LastSigner.publicKeyID
           /\ env.Meta.Signature[1].SignedBy = LastSigner.signedBy
           /\ Verify(EnvPtr, LastSignerKey) = nil
           /\ \A k \in PublicKeys \ {LastSignerKey} :
                Verify(EnvPtr, k) = ErrSignatureFailed

\* C8: a Sign call either returns an error and leaves the document's
\* signature as it was, or returns nil and leaves a signature with
\* algorithm "ed25519" and the signer's key id and identity.
C8_SignAllOrNothing ==
    [][ last'.op = "Sign" =>
          \/ /\ last'.err # nil
             /\ DocSignatureOf(env', pkg') = DocSignature
          \/ /\ last'.err = nil
             /\ DocSignatureOf(env', pkg') # NilPtr
             /\ DocSignatureOf(env', pkg')[1].Algorithm = "ed25519"
             /\ \E s \in Signers :
                  /\ s.privateKey = last'.key
                  /\ DocSignatureOf(env', pkg')[1].PublicKeyID = s.publicKeyID
                  /\ DocSignatureOf(env', pkg')[1].SignedBy = s.signedBy ]_vars

\* C9: VerifyWithPublicKeyID returns ErrSignatureMissing for an envelope
\* with no signature, ErrSignatureKeyMissing when the lookup of the stored
\* key id fails, and what Verify returns for the looked-up key otherwise.
C9_VerifyWithPublicKeyID ==
    subject = "envelope" =>
        \A f \in LookupFuncs :
            VerifyWithPublicKeyID(EnvPtr, f)
              = IF env.Meta.Signature = NilPtr THEN ErrSignatureMissing
                ELSE IF f[env.Meta.Signature[1].PublicKeyID] = ""
                THEN ErrSignatureKeyMissing
                ELSE Verify(EnvPtr, f[env.Meta.Signature[1].PublicKeyID])

\* The manifest OpenPackage reads from the archive: a pointer, nil when the
\* archive does not open, has no manifest.json, or its first manifest.json
\* cannot be read or parsed.
ArchiveManifest ==
    IF ~archive.IsZip \/ FindManifest(archive.File, 1) = 0 THEN NilPtr
    ELSE IF ~archive.File[FindManifest(archive.File, 1)].Readable THEN NilPtr
    ELSE archive.File[FindManifest(archive.File, 1)].Man

\* Entry i of the archive is a data file.
IsDataFile(i) == archive.File[i].Name # ManifestName

\* Every data file has an entry in the file table.
AllFilesListed ==
    \A i \in 1..Len(archive.File) :
        IsDataFile(i) => archive.File[i].Name \in DOMAIN ArchiveManifest[1].Files

\* The content of data file i has another SHA-256 than its entry records.
HashDiffers(i) ==
    /\ IsDataFile(i)
    /\ Sha256Hex[archive.File[i].Data] # ArchiveManifest[1].Files[archive.File[i].Name].Hash

C11_NoManifestGivesManifestMissing ==
    (subject = "archive" /\ archive.IsZip
     /\ \A i \in 1..Len(archive.File) : archive.File[i].Name # ManifestName)
        => OpenPackage(archive) = [err |-> ErrManifestMissing, pkg |-> NilPtr]

\* C11's case: an archive with a data file that cannot be read and no
\* manifest.json, and OpenPackage has just returned ErrManifestMissing.
C11_Witness ==
    /\ subject = "archive" /\ archive.IsZip
    /\ Len(archive.File) > 0
    /\ \A i \in 1..Len(archive.File) : archive.File[i].Name # ManifestName
    /\ \E i \in 1..Len(archive.File) : ~archive.File[i].Readable
    /\ last.op = "OpenPackage" /\ last.err = ErrManifestMissing

\* Data file i has no entry in the file table, and every data file before
\* it has one, can be read and has the recorded hash: the validation ends
\* at file i.
UnexpectedFileAt(i) ==
    /\ IsDataFile(i)
    /\ archive.File[i].Name \notin DOMAIN ArchiveManifest[1].Files
    /\ \A j \in 1..(i - 1) :
         IsDataFile(j) =>
            /\ archive.File[j].Name \in DOMAIN ArchiveManifest[1].Files
            /\ archive.File[j].Readable
            /\ ~HashDiffers(j)

\* C12: when the validation ends at a data file with no entry in the file
\* table, OpenPackage returns no package and an error that matches one of
\* the package's error values.
C12_UnexpectedFileIsTyped ==
    (subject = "archive" /\ ArchiveManifest # NilPtr
     /\ \E i \in 1..Len(archive.File) : UnexpectedFileAt(i))
        => /\ OpenPackage(archive).pkg = NilPtr
           /\ \E target \in SentinelErrors :
                ErrorsIs(OpenPackage(archive).err, target)

\* C13: OpenPackage succeeds when the manifest is read, every data file of
\* the archive has an entry, can be read and has the recorded hash, and the
\* file table lists a path no file of the archive has.
C13_MissingFileNotDetected ==
    (subject = "archive" /\ ArchiveManifest # NilPtr /\ AllFilesListed
     /\ (\A i \in 1..Len(archive.File) :
            IsDataFile(i) => archive.File[i].Readable /\ ~HashDiffers(i))
     /\ \E q \in DOMAIN ArchiveManifest[1].Files :
            \A i \in 1..Len(archive.File) : archive.File[i].Name # q)
        => /\ OpenPackage(archive).err = nil
           /\ OpenPackage(archive).pkg = Ptr([Manifest |-> ArchiveManifest])

\* C13's case: an archive with one data file that matches its entry and a
\* file table of two entries, and OpenPackage has just returned nil.
C13_Witness ==
    /\ subject = "archive" /\ ArchiveManifest # NilPtr /\ AllFilesListed
    /\ Len(archive.File) = 2
    /\ Cardinality(DOMAIN ArchiveManifest[1].Files) = 2
    /\ \A i \in 1..Len(archive.File) :
          IsDataFile(i) => archive.File[i].Readable /\ ~HashDiffers(i)
    /\ last.op = "OpenPackage" /\ last.err = nil

\* The manifest of the package the caller holds.
PkgManifest == pkg.Manifest[1]

\* C15: the canonical JSON of a manifest is the same bytes whatever its
\* file table and its signature are, and VerifyPackageSignature returns
\* the same whatever the file table is.
C15_FileTableNotSigned ==
    (subject = "package" /\ pkg.Manifest # NilPtr) =>
        \A t \in FileTables :
            /\ \A p \in {NilPtr, Ptr(TestSignature), PkgManifest.Signature} :
                 ManifestCanonicalJSON([PkgManifest EXCEPT !.Files = t, !.Signature = p])
                     = ManifestCanonicalJSON(PkgManifest)
            /\ \A k \in PublicKeys :
                 VerifyPackageSignature(
                     [Manifest |-> Ptr([PkgManifest EXCEPT !.Files = t])], k)
                     = VerifyPackageSignature(pkg, k)

\* C15's case: a signed package whose file table got an entry after the
\* signing, and VerifyPackageSignature with the signer's key has just
\* returned nil.
C15_Witness ==
    /\ subject = "package" /\ pkg.Manifest # NilPtr /\ edits = 1
    /\ PkgManifest.Signature # NilPtr
    /\ DOMAIN PkgManifest.Files # {}
    /\ PkgManifest = [NewManifest EXCEPT !.Files = PkgManifest.Files,
                                         !.Signature = PkgManifest.Signature]
    /\ last.op = "VerifyPackageSignature"
    /\ last.key = PkgManifest.Signature[1].Signature.data.key
    /\ last.err = nil

\* The package OpenPackage gives for the archive, and its manifest.
Opened == OpenPackage(archive).pkg[1]
OpenedManifest == Opened.Manifest[1]

\* The build wrote its one archive outside the working directory.
ArchivedOutside ==
    subject = "build" /\ archive.IsZip /\ InsideArchive \notin DOMAIN dir

\* OpenPackage succeeds, and the opened manifest has the version, the
\* description and the entity counts of the built one, and for every
\* entity file of the working directory an entry with the file's hash.
RoundTrip ==
    /\ OpenPackage(archive).err = nil
    /\ OpenedManifest.Version = PkgManifest.Version
    /\ OpenedManifest.Description = PkgManifest.Description
    /\ OpenedManifest.Entities = PkgManifest.Entities
    /\ \A q \in PathSet \cap DOMAIN dir :
          /\ q \in DOMAIN OpenedManifest.Files
          /\ OpenedManifest.Files[q].Hash = Sha256Hex[dir[q]]

\* C14, as claimed: for a package built by NewPackage and AddEntities
\* calls and archived outside its working directory, OpenPackage of the
\* archive succeeds and gives the built version, description and entity
\* counts, and a file-table entry for every entity file.
C14_BuildOpenRoundTrip == ArchivedOutside => RoundTrip

\* C14, amended: the same, for a description that is valid UTF-8.
C14_ValidTextRoundTrip ==
    (ArchivedOutside /\ PkgManifest.Description # InvalidUTF8) => RoundTrip

\* C14's case: two entity files were added, the archive was written
\* outside the working directory, and OpenPackage has just returned nil.
C14_Witness ==
    /\ ArchivedOutside /\ PkgManifest.Description # InvalidUTF8
    /\ PathSet \subseteq DOMAIN dir
    /\ DOMAIN PkgManifest.Entities = {"event", "tournament"}
    /\ PkgManifest.Entities["event"] = 2
    /\ Len(archive.File) = 3
    /\ last.op = "OpenPackage" /\ last.err = nil

\* A write or an AddEntities call changes the manifest's version, creation
\* time, creator, description or entity counts.
SignedFieldChanged ==
    /\ pkg.Manifest # NilPtr /\ pkg'.Manifest # NilPtr
    /\ \/ pkg'.Manifest[1].Version # PkgManifest.Version
       \/ pkg'.Manifest[1].Created # PkgManifest.Created
       \/ pkg'.Manifest[1].Creator # PkgManifest.Creator
       \/ pkg'.Manifest[1].Description # PkgManifest.Description
       \/ pkg'.Manifest[1].Entities # PkgManifest.Entities

ArchivedSigned(k) ==
    /\ subject = "build"
    /\ last'.op = "CreateArchive" /\ last'.err = nil
    /\ VerifyPackageSignature(pkg, k) = nil
    /\ OpenPackage(archive').err = nil

\* The package opened from the archive written has the signature of the
\* built one, and VerifyPackageSignature with key k accepts it.
OpenedVerifies(k) ==
    LET opened == OpenPackage(archive').pkg[1]
    IN  /\ opened.Manifest[1].Signature # NilPtr
        /\ opened.Manifest[1].Signature[1].Signature
             = PkgManifest.Signature[1].Signature
        /\ VerifyPackageSignature(opened, k) = nil

\* SignPackage followed by VerifyPackageSignature with the signer's key
\* succeeds.
SignThenVerifyPackage ==
    (subject = "build" /\ last'.op = "SignPackage" /\ last'.err = nil)
        => VerifyPackageSignature(pkg', PublicOf[last'.key]) = nil

\* C17, as claimed: a package just signed verifies with the signer's key;
\* and when a package that verifies is archived and the archive opened,
\* the opened package has the signature and verifies with the same key.
C17_SignatureSurvivesArchive ==
    [][ /\ SignThenVerifyPackage
        /\ \A k \in PublicKeys : ArchivedSigned(k) => OpenedVerifies(k) ]_vars

\* C17, amended: the same, for a description that is valid UTF-8.
C17_ValidTextSignatureSurvives ==
    [][ /\ SignThenVerifyPackage
        /\ \A k \in PublicKeys :
              (ArchivedSigned(k) /\ PkgManifest.Description # InvalidUTF8)
                  => OpenedVerifies(k) ]_vars

\* C17's case: a signed package with an entity file was archived, the
\* file table filled by the archiving, the archive opened, and
\* VerifyPackageSignature of the built package with the signer's key has
\* just returned nil.
C17_Witness ==
    /\ ArchivedOutside /\ PkgManifest.Description # InvalidUTF8
    /\ PkgManifest.Signature # NilPtr
    /\ DOMAIN PkgManifest.Files # {}
    /\ DOMAIN PkgManifest.Entities # {}
    /\ OpenPackage(archive).err = nil
    /\ OpenedManifest.Signature = PkgManifest.Signature
    /\ VerifyPackageSignature(Opened, PkgManifest.Signature[1].Signature.data.key) = nil
    /\ last.op = "VerifyPackageSignature"
    /\ last.key = PkgManifest.Signature[1].Signature.data.key
    /\ last.err = nil

\* The calls that returned a string, by their place in issued.
Returned == { i \in 1..Len(issued) : issued[i] # NoID }

\* C18: each string GenerateID returns is greater, as a string, than every
\* string GenerateID returned before on the generator, whatever the entity
\* types passed.
C18_IDsIncrease ==
    \A i, j \in Returned :
        (i < j /\ issued[i].op = "GenerateID" /\ issued[j].op = "GenerateID")
            => StringLess(issued[i], issued[j])

\* From call i to call j no call has read an earlier time than the call
\* before it, and no call up to j has panicked.
ClockSteady(i, j) ==
    /\ \A k \in 1..j : issued[k] # NoID
    /\ \A k \in i..(j - 1) : issued[k].ms <= issued[k + 1].ms

MutualExclusion ==
    /\ \A g, h \in Goroutines :
          (InCriticalSection(pc[g]) /\ InCriticalSection(pc[h])) => g = h
    /\ \A g \in Goroutines : InCriticalSection(pc[g]) <=> mu = g

\* The strings returned are pairwise distinct.
PairwiseDistinct ==
    \A i, j \in Returned : i # j => issued[i] # issued[j]

\* C20: the strings the calls of one generator return, made by one
\* goroutine or by several, are pairwise distinct; a goroutine is between
\* its read of the clock and its return only while it holds the mutex,
\* which is free when no call is under way; and every call that waits for
\* the mutex ends.
C20_UniqueUnderMutex ==
    /\ [](PairwiseDistinct /\ MutualExclusion)
    /\ \A g \in Goroutines : (pc[g].at = "Lock") ~> (pc[g].at = "idle")

\* C20's case: a call has returned a string, and a goroutine waits for
\* the mutex while another, which holds it, is about to return a string
\* with the same timestamp and an incremented entropy.
C20_Witness ==
    /\ Len(issued) = 1 /\ Returned = {1}
    /\ \E g, h \in Goroutines :
          /\ pc[g].at = "Return" /\ mu = g
          /\ pc[g].id.ms = issued[1].ms
          /\ pc[g].id.entropy.nonce = issued[1].entropy.nonce
          /\ pc[g].id # issued[1]
          /\ pc[h].at = "Lock"
\* C21: for every entity type T, ParseID(GenerateID(T)) succeeds and
\* returns the namespace "ptd", the entity type T and a raw id that IsULID
\* accepts.
C21_GenerateParseRoundTrip ==
    Done("GenerateID") =>
        /\ output.parsed.err = nil
        /\ output.parsed.prefix = Namespace
        /\ output.parsed.entityType = input.arg
        /\ IsULID(output.parsed.identifier)

\* The colons of a string, and whether it starts with "ptd:".
Colons(s) == { i \in 1..Len(s) : s[i] = Colon }
StartsWithNamespace(s) ==
    /\ Len(s) > Len(Namespace)
    /\ SubSeq(s, 1, Len(Namespace)) = Namespace
    /\ s[Len(Namespace) + 1] = Colon

\* C22: ParseID(s) fails with an error that wraps ErrInvalidID exactly when
\* s does not have three parts between colons (two colons) or the first is
\* not "ptd"; otherwise it returns no error and the three parts as they
\* stand in s. ValidateID(s) is true exactly when ParseID(s) succeeds.
C22_ParseIDRejectsExactly ==
    Done("ParseID") =>
        LET s == input.arg
            r == output.parsed
            wellFormed == Cardinality(Colons(s)) = 2 /\ StartsWithNamespace(s)
        IN  /\ wellFormed <=> r.err = nil
            /\ ~wellFormed <=> ErrorsIs(r.err, ErrInvalidID)
            /\ output.valid <=> r.err = nil
            /\ r.err = nil =>
                  /\ r.prefix = Namespace
                  /\ r.prefix \o << Colon >> \o r.entityType
                         \o << Colon >> \o r.identifier = s
                  /\ Colons(r.entityType) = {} /\ Colons(r.identifier) = {}
            /\ r.err # nil =>
                  r.prefix = <<>> /\ r.entityType = <<>> /\ r.identifier = <<>>

\* ParseID has split "ptd:t:" into "ptd", "t" and "".
C22_Witness ==
    /\ Done("ParseID")
    /\ input.arg = << "p", "t", "d", ":", "t", ":" >>
    /\ output.valid
    /\ output.parsed.entityType = << "t" >>

\* C23: two documents of the same content produce the same CanonicalJSON
\* bytes (or both fail), whatever the order in which the keys of their maps
\* were inserted or are ranged over and whatever signature is attached;
\* so do two calls on one document.
C23_CanonicalDeterministic ==
    Done("CanonicalJSON") => output.first = output.second

\* An envelope with a map in the payload and in the extensions has been
\* serialised twice, the maps ranged over in two different orders.
C23_Witness ==
    /\ Done("CanonicalJSON")
    /\ input.doc.go = "*Envelope"
    /\ input.doc.env.Spec.X = MapAZ
    /\ input.doc.env.Meta.Extensions = MapAZ
    /\ output.orders = << "az", "za" >>
    /\ output.first.err = nil

\* What a key parser must return for the string str when keys have size
\* bytes: the decoded bytes and no error when str is base64 of size bytes,
\* an error and no key otherwise.
ParsedAsKey(r, str, size) ==
    IF str.form # "bad" /\ str.data.len = size
    THEN r.err = nil /\ r.key = str.data
    ELSE r.err # nil /\ r.key = NilKey

\* C24: ParsePublicKey succeeds exactly when its input is base64 of 32
\* bytes and ParsePrivateKey exactly when it is base64 of 64 bytes; any
\* other input gives an error and no key. Both strings of a key pair from
\* GenerateKeyPair parse, to the keys generated.
C24_KeyParsingChecksLength ==
    /\ Done("ParseKey") =>
          /\ ParsedAsKey(output.pub, input.str, 32)
          /\ ParsedAsKey(output.priv, input.str, 64)
    /\ Done("GenerateKeyPair") =>
          /\ output.pub.err = nil /\ output.pub.key.id = PublicOf[input.seed]
          /\ output.priv.err = nil /\ output.priv.key.id = input.seed

\* The parsers have been given base64 of 33 bytes and have refused it.
C24_Witness ==
    /\ Done("ParseKey")
    /\ input.str.form = "std"
    /\ input.str.data.len = 33
    /\ output.pub.err = errPublicKeySize
    /\ output.priv.err = errPrivateKeySize

\* C25: Validate returns ErrInvalidID if the ID is empty; otherwise
\* ErrInvalidType if the Type is empty; otherwise ErrMissingSchema if
\* Meta.Schema is empty; otherwise nil: an envelope that lacks several
\* fields reports the first of them.
C25_ValidateReportsFirstMissing ==
    Done("Validate") =>
        LET e == input.env
        IN  /\ e.ID = "" => output.err = ErrInvalidID
            /\ e.ID # "" /\ e.Type = "" => output.err = ErrInvalidType
            /\ e.ID # "" /\ e.Type # "" /\ e.Meta.Schema = ""
                  => output.err = ErrMissingSchema
            /\ e.ID # "" /\ e.Type # "" /\ e.Meta.Schema # "" => output.err = nil

\* An envelope with neither ID, Type nor schema has been validated.
C25_Witness ==
    /\ Done("Validate")
    /\ input.env.ID = "" /\ input.env.Type = "" /\ input.env.Meta.Schema = ""
    /\ output.err = ErrInvalidID

\* The calls that only read the document.
ReadOnlyOps == {"CanonicalJSON", "Verify", "VerifyWithPublicKeyID", "VerifyPackageSignature"}

\* C26: CanonicalJSON on an envelope or a manifest, Verify,
\* VerifyWithPublicKeyID and VerifyPackageSignature leave the document as it
\* was, whether they succeed or fail: the signature attached, the metadata,
\* the payload and the manifest with its file table are the same after the
\* call as before.
C26_ReadOnlyCallsKeepDocument ==
    [][last'.op \in ReadOnlyOps => env' = env /\ pkg' = pkg]_vars

\* A signed envelope has been verified with the signer's key and still
\* has its signature.
C26_Witness ==
    /\ subject = "envelope"
    /\ last = Call("Verify", "pA", nil)
    /\ env.Meta.Signature # NilPtr

\* The records of an entity file, by its content, and for an entity type
\* the records of its file in the working directory and the count the
\* manifest has for it (none of either counts as 0).
RecordsIn(content) == IF content = "c1" THEN 1 ELSE IF content = "c2" THEN 2 ELSE 0
RecordsOf(entityType) ==
    IF EntityFile(entityType) \in DOMAIN dir
    THEN RecordsIn(dir[EntityFile(entityType)]) ELSE 0
CountOf(entityType) ==
    IF entityType \in DOMAIN pkg.Manifest[1].Entities
    THEN pkg.Manifest[1].Entities[entityType] ELSE 0

\* C27: after any sequence of AddEntities calls on a package, successful
\* or failing, the manifest's count for each entity type is the number of
\* records in that type's NDJSON file in the working directory.
C27_CountsMatchFiles ==
    subject = "build" =>
        \A i \in 1..Len(EntityTypes) : CountOf(EntityTypes[i]) = RecordsOf(EntityTypes[i])

\* C28: the manifest CreateArchive writes into the archive has a
\* file-table entry for exactly the files of the archive other than
\* manifest.json, each with the SHA-256 and the size of the archived bytes,
\* and none for manifest.json; also when CreateArchive is called again.
C28_FileTableMatchesArchive ==
    (subject = "build" /\ last.op = "CreateArchive" /\ last.err = nil) =>
        LET table == ArchiveManifest[1].Files
            data == { i \in 1..Len(archive.File) : IsDataFile(i) }
        IN  /\ DOMAIN table = { archive.File[i].Name : i \in data }
            /\ \A i \in data :
                  archive.File[i].Name \in DOMAIN table =>
                     /\ table[archive.File[i].Name].Hash = Sha256Hex[archive.File[i].Data]
                     /\ table[archive.File[i].Name].Size = SizeOf(archive.File[i].Data)
            /\ ManifestName \notin DOMAIN table


\* The signatures that differ from sig at most in the algorithm, the key
\* id, the signing time and the signer identity: the stored signature
\* string is that of sig.
MetadataVariants(sig) ==
    { [sig EXCEPT !.Algorithm = a, !.PublicKeyID = id, !.SignedAt = t, !.SignedBy = by]
      : a \in {"ed25519", "rsa-sha256"}, id \in KeyIDs,
        t \in {sig.SignedAt, sig.SignedAt + 1, BeforeYearZero},
        by \in {sig.SignedBy, "someone-else"} }

\* The document the caller holds, with sig as its stored signature.
EnvWithSignature(sig) == [env EXCEPT !.Meta.Signature = Ptr(sig)]
PkgWithSignature(sig) ==
    IF pkg.Manifest = NilPtr THEN pkg
    ELSE [Manifest |-> Ptr([pkg.Manifest[1] EXCEPT !.Signature = Ptr(sig)])]

\* C29: two signed documents that differ only in the algorithm, key id,
\* signing time or signer identity of the stored signature get the same
\* result from Verify (VerifyPackageSignature) with the same key.
C29_VerifyIgnoresSignatureMetadata ==
    DocSignature # NilPtr =>
        \A sig \in MetadataVariants(DocSignature[1]), k \in PublicKeys :
            VerifyDocOf(EnvWithSignature(sig), PkgWithSignature(sig), k) = VerifyDoc(k)

\* OpenPackage of archive a succeeds, and VerifyPackageSignature of the
\* opened package with key k succeeds.
OpensAndVerifies(a, k) ==
    /\ OpenPackage(a).err = nil
    /\ VerifyPackageSignature(OpenPackage(a).pkg[1], k) = nil

\* The step replaces the bytes of one data file of the archive and, in the
\* file table of the archived manifest, the hash recorded for it by the
\* SHA-256 of the new bytes; the rest of the archive is as it was.
FileAndHashReplaced ==
    /\ archive.IsZip /\ archive'.IsZip
    /\ Len(archive'.File) = Len(archive.File)
    /\ LET m == FindManifest(archive.File, 1)
       IN  /\ m # 0
           /\ archive.File[m].Man # NilPtr /\ archive'.File[m].Man # NilPtr
           /\ \E i \in 1..Len(archive.File) :
                LET name == archive.File[i].Name
                    entry == archive'.File[m].Man[1].Files[name]
                IN  /\ name # ManifestName
                    /\ name \in DOMAIN archive.File[m].Man[1].Files
                    /\ name \in DOMAIN archive'.File[m].Man[1].Files
                    /\ archive'.File[i].Data # archive.File[i].Data
                    /\ entry.Hash = Sha256Hex[archive'.File[i].Data]
                    /\ entry.Hash # archive.File[m].Man[1].Files[name].Hash
                    /\ archive' =
                         [archive EXCEPT
                            !.File[i].Data = archive'.File[i].Data,
                            !.File[m].Man = Ptr([@[1] EXCEPT !.Files[name] = entry])]

\* C30: when a signed archive opens and the opened package verifies with
\* the signer's public key, and one file's bytes and the hash recorded for
\* it in the manifest's file table are then replaced consistently,
\* OpenPackage still succeeds and VerifyPackageSignature of the opened
\* package still succeeds with that key.
C30_ConsistentSwapUndetected ==
    [][ \A k \in PublicKeys :
          (FileAndHashReplaced /\ OpensAndVerifies(archive, k))
              => OpensAndVerifies(archive', k) ]_vars

\* C30's case: a data file of the signed archive and its recorded hash
\* were replaced, the archive was opened, and VerifyPackageSignature of the
\* opened package with the signer's key has just returned nil.
C30_Witness ==
    /\ subject = "build" /\ edits = 1
    /\ OpenPackage(archive).err = nil
    /\ pkg = OpenPackage(archive).pkg[1]
    /\ \E i \in 1..Len(archive.File) :
         /\ archive.File[i].Name \in PathSet \cap DOMAIN dir
         /\ archive.File[i].Data # dir[archive.File[i].Name]
         /\ PkgManifest.Files[archive.File[i].Name].Hash
              = Sha256Hex[archive.File[i].Data]
    /\ PkgManifest.Signature # NilPtr
    /\ last.op = "VerifyPackageSignature"
    /\ last.key = PkgManifest.Signature[1].Signature.data.key
    /\ last.err = nil
====
